---- MODULE Spec2Model ----
(***************************************************************************)
(* One peer-local execution step of the AIR interpreter (fluencelabs/air). *)
(*                                                                         *)
(* The step walks the script's instruction tree with an explicit stack of  *)
(* frames (one frame per instruction whose execute() is on the call        *)
(* stack).  A frame's phase counts how many of its children have returned. *)
(* `ret` is the ExecutionResult handed from a returning execute() to its   *)
(* caller.  The previous and the current trace are input data: a slider    *)
(* has a fixed total length, and the state stored at a position is drawn   *)
(* when the slider reads it (each position is read at most once, sliders   *)
(* only move forwards).                                                    *)
(***************************************************************************)
EXTENDS Integers, Sequences, FiniteSets, TLC

VARIABLES
    script,     \* the instruction tree under execution: a table of nodes
    stack,      \* frames of the execute() calls in progress
    ret,        \* ExecutionResult of the execute() that returned last
    ctx,        \* ExecutionCtx
    tr,         \* TraceHandler: prev slider, current slider, new trace
    pc,         \* "running" while the root instruction runs, then "done"
    outcome,    \* the step's outcome, set when the root returns
    ev,         \* what the last handler did (history only)
    pre         \* ExecutionCtx and new trace before the last handler ran

vars == <<script, stack, ret, ctx, tr, pc, outcome, ev, pre>>

----------------------------------------------------------------------------
(* Bounds of the model.                                                    *)

MaxTraceLen == 3        \* longest previous / current trace
MaxParSize == 1         \* largest subtree size recorded in an input Par
MaxCallId == 1          \* call ids found in the input data
MaxNewCalls == 4        \* call requests the runs of one script issue at most
MaxRuns == 2            \* runs of the script on one peer
MaxFoldDepth == 2       \* folds nested in one another

(* Program constants.                                                      *)

CALL_SERVICE_SUCCESS == 0
I32_MAX == 2147483647

Peers == {"P", "Q"}

\* the peer the step runs on
CurrentPeers == {"P"}

\* the peer that started the particle: an operand %init_peer_id% is used by
\* the scripts that compare it with the value "Q"
InitPeers(s) ==
    IF \E i \in 1..Len(s) : "init_peer_id" \in {s[i].xk, s[i].yk} THEN Peers ELSE {"P"}

\* lengths of the input traces
TraceLens == {0, 1, MaxTraceLen}
NoVal == "<none>"

----------------------------------------------------------------------------
(* ExecutedState, as one record shape.                                     *)

NoState ==
    [t |-> "none", l |-> 0, r |-> 0, res |-> "", peer |-> "", id |-> 0,
     v |-> "", vt |-> "", gen |-> 0, code |-> 0, msg |-> "", gens |-> <<>>]

ParS(l, r) == [NoState EXCEPT !.t = "par", !.l = l, !.r = r]

\* RequestSentBy(Sender::PeerIdWithCallId{peer_id, call_id}); id = 0 is
\* Sender::PeerId(peer_id), the marker a sender leaves for a remote call
Sent(peer, id) == [NoState EXCEPT !.t = "call", !.res = "sent", !.peer = peer, !.id = id]

\* Executed(Value::Scalar(v)) / Executed(Value::Stream{v, generation})
Executed(v, vt, gen) ==
    [NoState EXCEPT !.t = "call", !.res = "executed", !.v = v, !.vt = vt, !.gen = gen]

Failed(code, msg) ==
    [NoState EXCEPT !.t = "call", !.res = "failed", !.code = code, !.msg = msg]

ApS(gens) == [NoState EXCEPT !.t = "ap", !.gens = gens]

\* Canon(CanonResult{stream_elements_pos})
CanonS(stream_elements_pos) == [NoState EXCEPT !.t = "canon", !.gens = stream_elements_pos]

----------------------------------------------------------------------------
(* ExecutionError, as one record shape.  `catchable` is fixed where the    *)
(* error is constructed: by the CatchableError / UncatchableError wrapper  *)
(* where the code names one, by is_catchable for the kinds of errors.rs.   *)

NoneRes == [kind |-> "none", catchable |-> FALSE, joinable |-> FALSE, code |-> 0, msg |-> ""]
OkRes == [NoneRes EXCEPT !.kind = "ok"]

IsErr(r) == r.kind \notin {"none", "ok"}

\* errors.rs is_catchable: every kind but TraceError
is_catchable(kind) == kind # "TraceError"

\* a faulty is_joinable: every error is joinable
is_joinable_all(kind) == TRUE

\* errors.rs is_joinable
is_joinable(kind) ==
    kind \in {"VariableNotFound", "StreamJsonPathError", "EmptyStreamJsonPathError"}

LocalServiceError(code, msg) ==
    [kind |-> "LocalServiceError", catchable |-> is_catchable("LocalServiceError"),
     joinable |-> is_joinable("LocalServiceError"),
     code |-> code, msg |-> msg]

VariableNotFound(name) ==
    [kind |-> "VariableNotFound", catchable |-> is_catchable("VariableNotFound"),
     joinable |-> is_joinable("VariableNotFound"),
     code |-> 0, msg |-> name]

MultipleVariablesFound(name) ==
    [kind |-> "MultipleVariablesFound", catchable |-> FALSE, joinable |-> FALSE,
     code |-> 0, msg |-> name]

\* a faulty MatchWithoutXorError: built as an uncatchable error
MatchWithoutXorErrorUncatchable ==
    [kind |-> "MatchWithoutXorError", catchable |-> FALSE, joinable |-> FALSE,
     code |-> 0, msg |-> "match is used without corresponding xor"]

MatchWithoutXorError ==
    [kind |-> "MatchWithoutXorError", catchable |-> is_catchable("MatchWithoutXorError"),
     joinable |-> is_joinable("MatchWithoutXorError"),
     code |-> 0, msg |-> "match is used without corresponding xor"]

TraceError(msg) ==
    [kind |-> "TraceError", catchable |-> is_catchable("TraceError"),
     joinable |-> is_joinable("TraceError"),
     code |-> 0, msg |-> msg]

StreamDontHaveSuchGeneration(name) ==
    [kind |-> "StreamDontHaveSuchGeneration", catchable |-> is_catchable("StreamDontHaveSuchGeneration"),
     joinable |-> is_joinable("StreamDontHaveSuchGeneration"),
     code |-> 0, msg |-> name]

StreamsForCanonNotFound(name) ==
    [kind |-> "StreamsForCanonNotFound", catchable |-> TRUE, joinable |-> FALSE,
     code |-> 0, msg |-> name]

VariableNotFoundByPos(name) ==
    [kind |-> "VariableNotFoundByPos", catchable |-> FALSE, joinable |-> FALSE,
     code |-> 0, msg |-> name]

ApResultNotCorrespondToInstr ==
    [kind |-> "ApResultNotCorrespondToInstr", catchable |-> is_catchable("ApResultNotCorrespondToInstr"),
     joinable |-> is_joinable("ApResultNotCorrespondToInstr"),
     code |-> 0, msg |-> "ap result doesn't correspond to the instruction"]

\* a faulty to_error_code: every error has the same code
to_error_code_same(e) == 1

\* ExecutionError::to_error_code
to_error_code(e) ==
    CASE e.kind = "LocalServiceError" -> 2
      [] e.kind = "VariableNotFound" -> 3
      [] e.kind = "MultipleVariablesFound" -> 4
      [] e.kind = "MatchWithoutXorError" -> 13
      [] e.kind = "StreamDontHaveSuchGeneration" -> 18
      [] e.kind = "ApResultNotCorrespondToInstr" -> 19
      [] e.kind = "TraceError" -> 21
      [] OTHER -> 1

----------------------------------------------------------------------------
(* Instructions.  A script is a table of nodes, node 1 is the root, and a  *)
(* node names its children by their index.                                 *)

NullI ==
    [op |-> "null", l |-> 0, r |-> 0, peer |-> "", arg |-> NoVal,
     outk |-> "none", out |-> "", xk |-> "", x |-> "", yk |-> "", y |-> ""]

\* (call peer ("" "") [arg] out): arg is a scalar name, "%last_error%" or NoVal
CallI(peer, arg, outk, out) ==
    [NullI EXCEPT !.op = "call", !.peer = peer, !.arg = arg, !.outk = outk, !.out = out]

SeqI(l, r) == [NullI EXCEPT !.op = "seq", !.l = l, !.r = r]
ParI(l, r) == [NullI EXCEPT !.op = "par", !.l = l, !.r = r]
XorI(l, r) == [NullI EXCEPT !.op = "xor", !.l = l, !.r = r]

\* (match x y body): an operand is a literal ("lit") or a scalar ("scalar")
MatchI(xk, x, yk, y, body) ==
    [NullI EXCEPT !.op = "match", !.xk = xk, !.x = x, !.yk = yk, !.y = y, !.l = body]

\* (ap x out)
ApI(xk, x, outk, out) ==
    [NullI EXCEPT !.op = "ap", !.xk = xk, !.x = x, !.outk = outk, !.out = out]

\* (canon peer $x #out)
CanonI(peer, stream, name) ==
    [NullI EXCEPT !.op = "canon", !.peer = peer, !.x = stream, !.out = name]

Ops == {"null", "call", "seq", "par", "xor", "match", "ap", "canon"}

Scripts ==
    { <<CallI("P", NoVal, "scalar", "x")>>,
      <<CallI("Q", NoVal, "scalar", "x")>>,
      <<CallI("P", NoVal, "stream", "s")>>,
      <<SeqI(2, 3), CallI("P", NoVal, "scalar", "x"), CallI("P", "x", "scalar", "y")>>,
      <<SeqI(2, 3), CallI("Q", NoVal, "scalar", "x"), CallI("P", NoVal, "scalar", "y")>>,
      <<SeqI(2, 3), CallI("P", NoVal, "scalar", "x"), CallI("Q", NoVal, "scalar", "x")>>,
      <<SeqI(2, 3), MatchI("lit", "a", "lit", "b", 4), CallI("P", NoVal, "none", ""), NullI>>,
      <<XorI(2, 3), MatchI("lit", "a", "lit", "b", 4),
        CallI("P", "%last_error%", "scalar", "r"), NullI>>,
      <<XorI(2, 3), CallI("P", NoVal, "scalar", "x"), CallI("Q", NoVal, "scalar", "y")>>,
      <<XorI(2, 3), SeqI(4, 5), CallI("P", "%last_error%", "none", ""),
        CallI("P", NoVal, "scalar", "x"), MatchI("scalar", "x", "lit", "a", 6), NullI>>,
      <<ParI(2, 3), CallI("Q", NoVal, "scalar", "x"), CallI("P", NoVal, "scalar", "y")>>,
      <<ParI(2, 3), CallI("P", "x", "scalar", "y"), CallI("P", NoVal, "scalar", "w")>>,
      <<SeqI(2, 3), ParI(4, 5), CallI("P", NoVal, "scalar", "z"),
        CallI("Q", NoVal, "scalar", "x"), CallI("P", NoVal, "scalar", "y")>>,
      <<SeqI(2, 3), ApI("lit", "a", "stream", "s"), CanonI("P", "s", "c")>>,
      <<XorI(2, 3), MatchI("lit", "a", "lit", "a", 4),
        CallI("P", NoVal, "scalar", "y"), CallI("P", NoVal, "scalar", "x")>>,
      <<XorI(2, 3), MatchI("init_peer_id", "", "lit", "Q", 4),
        CallI("Q", NoVal, "none", ""), NullI>>,
      <<SeqI(2, 3), CallI("P", NoVal, "scalar", "x"), XorI(4, 5),
        MatchI("scalar", "x", "lit", "a", 6), NullI, CallI("Q", NoVal, "scalar", "y")>>,
      <<SeqI(2, 3), CallI("P", NoVal, "scalar", "x"),
        MatchI("scalar", "x", "lit", "b", 4), CallI("Q", NoVal, "none", "")>>,
      <<ParI(2, 3), MatchI("lit", "a", "lit", "b", 4), CallI("Q", NoVal, "none", ""),
        NullI>>,
      <<ParI(2, 3), ParI(4, 5), CallI("P", NoVal, "scalar", "z"),
        CallI("Q", NoVal, "scalar", "x"), CallI("P", NoVal, "scalar", "y")>>,
      <<XorI(2, 3), ApI("lit", "a", "scalar", "x"), CallI("P", NoVal, "scalar", "y")>> }

----------------------------------------------------------------------------
(* Scalars (execution_context/scalar_variables.rs): name -> sparse cells.  *)

Names == {"x", "y", "z", "w", "r"}

\* iterable_values: the names bound to a fold state
NoScalars ==
    [local_values |-> [n \in Names |-> <<>>], iterable_values |-> {}, fold_block_id |-> 0]

SparseCell(position, value) == [position |-> position, value |-> value]

ScalarDefined(s, name) == s.local_values[name] # <<>>

\* a faulty shadowing_allowed: shadowing is never allowed
shadowing_allowed_never(s) == FALSE

shadowing_allowed(s) == s.fold_block_id # 0

\* a faulty set_value: shadowing is allowed at every depth
set_value_shadowing(s, name, value) ==
    LET cells == s.local_values[name] IN
    IF cells = <<>>
    THEN [err |-> NoneRes, prior |-> FALSE,
          scalars |-> [s EXCEPT !.local_values[name] =
                           <<SparseCell(s.fold_block_id, value)>>]]
    ELSE [err |-> NoneRes, prior |-> TRUE,
          scalars |-> [s EXCEPT !.local_values[name][Len(cells)].value = value]]

\* Scalars::set_value: [err, scalars, prior]; err = NoneRes when Ok
set_value(s, name, value) ==
    LET cells == s.local_values[name] IN
    IF cells = <<>>
    THEN [err |-> NoneRes, prior |-> FALSE,
          scalars |-> [s EXCEPT !.local_values[name] =
                           <<SparseCell(s.fold_block_id, value)>>]]
    ELSE IF ~shadowing_allowed(s)
    THEN [err |-> MultipleVariablesFound(name), prior |-> FALSE, scalars |-> s]
    ELSE IF cells[Len(cells)].position = s.fold_block_id
    THEN [err |-> NoneRes, prior |-> TRUE,
          scalars |-> [s EXCEPT !.local_values[name][Len(cells)].value = value]]
    ELSE [err |-> NoneRes, prior |-> FALSE,
          scalars |-> [s EXCEPT !.local_values[name] =
                           Append(cells, SparseCell(s.fold_block_id, value))]]

\* a faulty get_value: the variable's value is not read
get_value_unread(s, name) == NoVal

\* Scalars::get_value: the value of the last cell, NoVal for VariableNotFound
get_value(s, name) ==
    LET cells == s.local_values[name] IN
    IF cells = <<>> THEN NoVal ELSE cells[Len(cells)].value

MultipleIterableValues(name) ==
    [kind |-> "MultipleIterableValues", catchable |-> FALSE, joinable |-> FALSE,
     code |-> 0, msg |-> name]

\* Scalars::set_iterable_value: [err, scalars]
set_iterable_value(s, name) ==
    IF name \in s.iterable_values
    THEN [err |-> MultipleIterableValues(name), scalars |-> s]
    ELSE [err |-> NoneRes, scalars |-> [s EXCEPT !.iterable_values = @ \cup {name}]]

\* Scalars::remove_iterable_value
remove_iterable_value(s, name) == [s EXCEPT !.iterable_values = @ \ {name}]

\* Scalars::get: "value", "iterable", "VariableNotFound" or, for a name bound
\* both ways, "unreachable"
get(s, name) ==
    CASE ~ScalarDefined(s, name) /\ name \notin s.iterable_values -> "VariableNotFound"
      [] ScalarDefined(s, name) /\ name \notin s.iterable_values -> "value"
      [] ~ScalarDefined(s, name) /\ name \in s.iterable_values -> "iterable"
      [] OTHER -> "unreachable"

\* Scalars::meet_scope_start
meet_scope_start(s) == [s EXCEPT !.fold_block_id = @ + 1]

\* a faulty meet_scope_end: the depth is decremented and no cell is removed
meet_scope_end_keep(s) == [s EXCEPT !.fold_block_id = @ - 1]

\* Scalars::meet_scope_end: the depth is decremented, then the last cell of
\* a name is removed when its position is not 0 and not below the new depth
meet_scope_end(s) ==
    LET fold_block_id == s.fold_block_id - 1
        popped(values) ==
            IF values = <<>> THEN <<>>
            ELSE IF values[Len(values)].position # 0
                    /\ values[Len(values)].position >= fold_block_id
                 THEN SubSeq(values, 1, Len(values) - 1)
                 ELSE values
    IN  [s EXCEPT !.fold_block_id = fold_block_id,
                  !.local_values = [n \in Names |-> popped(s.local_values[n])]]

----------------------------------------------------------------------------
(* Streams: name -> generations, each a list of values; a value carries    *)
(* the trace position it was produced at.                                  *)

StreamValue(v, pos) == [value |-> v, trace_pos |-> pos]

StreamNames == {"s"}

NoStreams == [n \in StreamNames |-> <<>>]

\* add_stream_value with Generation::Last (gen < 0) or Generation::Nth(gen):
\* [err, streams, generation]
add_stream_value(streams, name, value, gen) ==
    LET st == streams[name] IN
    IF st = <<>>
    THEN [err |-> NoneRes, generation |-> 0,
          streams |-> [streams EXCEPT ![name] = << <<value>> >>]]
    ELSE LET g == IF gen < 0 THEN Len(st) - 1 ELSE gen IN
         IF g >= Len(st)
         THEN [err |-> StreamDontHaveSuchGeneration(name), generation |-> 0,
               streams |-> streams]
         ELSE [err |-> NoneRes, generation |-> g,
               streams |-> [streams EXCEPT ![name][g + 1] = Append(@, value)]]

CanonNames == {"c"}

\* canon streams: name -> the frozen values, when bound
NoCanons == [n \in CanonNames |-> [bound |-> FALSE, values |-> <<>>]]

\* Streams::add_canon
add_canon(canons, name, canon_stream) ==
    [canons EXCEPT ![name] = [bound |-> TRUE, values |-> canon_stream]]

RECURSIVE Flatten(_)
\* the values of all generations of a stream, in insertion order
Flatten(generations) ==
    IF generations = <<>> THEN <<>>
    ELSE Head(generations) \o Flatten(Tail(generations))

\* Stream::generations_count
generations_count(stream) == Len(stream)

----------------------------------------------------------------------------
(* Trace sliders and the output trace.                                     *)

Slider(len) ==
    [len |-> len, pos |-> 0, sub |-> len, seen |-> 0, trace |-> <<>>, given |-> FALSE]

\* a slider over a trace whose content is known: the data an earlier run
\* returned
GivenSlider(trace) ==
    [len |-> Len(trace), pos |-> 0, sub |-> Len(trace), seen |-> 0, trace |-> trace,
     given |-> TRUE]

\* next_state() has a state to give: the window and the trace are not used up
SliderAvail(s) == s.seen < s.sub /\ s.pos < s.len

Pad(trace, n) == trace \o [i \in 1..(n - Len(trace)) |-> NoState]

\* next_state(): st is the state stored at the slider's position, NoState
\* when there is none to give
next_state(s, st) ==
    IF st = NoState THEN s
    ELSE IF s.given THEN [s EXCEPT !.pos = @ + 1, !.seen = @ + 1]
    ELSE [s EXCEPT !.pos = @ + 1, !.seen = @ + 1, !.trace = Append(Pad(@, s.pos), st)]

\* set_subtrace_len(): [ok, slider]
set_subtrace_len(s, n) ==
    IF n > s.len - s.pos THEN [ok |-> FALSE, slider |-> s]
    ELSE [ok |-> TRUE, slider |-> [s EXCEPT !.sub = n, !.seen = 0]]

\* set_position_and_len(): [ok, slider]
set_position_and_len(s, pos, n) ==
    IF pos + n > s.len THEN [ok |-> FALSE, slider |-> s]
    ELSE [ok |-> TRUE, slider |-> [s EXCEPT !.pos = pos, !.sub = n, !.seen = 0]]

interval_len(s) == s.sub - s.seen

\* TraceHandler::trace_pos: where the next state of the new trace goes
trace_pos(new) == Len(new)

\* TraceHandler::meet_call_end: the state goes to the end of the new trace
meet_call_end(new, state) == Append(new, state)

----------------------------------------------------------------------------
(* Merger of call states (merger/call_merger).                             *)

\* a faulty merge_executed: stream values must have equal generations too
merge_executed_strict(prev_value, current_value) ==
    [ok |-> prev_value = current_value, state |-> prev_value]

\* utils.rs merge_executed: [ok, state]
merge_executed(prev_value, current_value) ==
    CASE prev_value.vt = "scalar" /\ current_value.vt = "scalar" ->
            \* are_scalars_equal
            [ok |-> prev_value = current_value, state |-> prev_value]
      [] prev_value.vt = "stream" /\ current_value.vt = "stream" ->
            \* are_streams_equal: generations may differ
            [ok |-> prev_value.v = current_value.v, state |-> prev_value]
      [] OTHER -> [ok |-> FALSE, state |-> prev_value]

\* utils.rs check_equal
check_equal(prev_call, current_call) == prev_call = current_call

\* try_merge_next_state_as_call: [err, state]; state = NoState is
\* MergerCallResult::Empty
try_merge_next_state_as_call(ps, cs) ==
    LET incompatible == [err |-> TraceError("IncompatibleExecutedStates"), state |-> NoState]
        not_equal == [err |-> TraceError("IncompatibleCallResults"), state |-> NoState]
        ok(st) == [err |-> NoneRes, state |-> st]
    IN
    CASE ps = NoState /\ cs = NoState -> ok(NoState)
      [] ps = NoState /\ cs.t = "call" -> ok(cs)
      [] ps.t = "call" /\ cs = NoState -> ok(ps)
      [] ps.t = "call" /\ cs.t = "call" ->
            (CASE ps.res = "executed" /\ cs.res = "executed" ->
                    LET m == merge_executed(ps, cs) IN
                    IF m.ok THEN ok(m.state) ELSE not_equal
               [] ps.res = "executed" /\ cs.res = "sent" -> ok(ps)
               [] ps.res = "sent" /\ cs.res = "executed" -> ok(cs)
               [] ps.res = cs.res -> IF check_equal(ps, cs) THEN ok(ps) ELSE not_equal
               [] OTHER -> not_equal)
      [] OTHER -> incompatible

----------------------------------------------------------------------------
(* Service results (air_interpreter_interface::CallServiceResult).         *)

NoServiceResult == [present |-> FALSE, ret_code |-> 0, result |-> ""]

ServiceResult(ret_code, result) ==
    [present |-> TRUE, ret_code |-> ret_code, result |-> result]

\* the call ids of a step: those of the input data and those of the
\* requests the runs issue
CallIds == 1..(MaxCallId + MaxNewCalls)

NoServiceResults == [id \in CallIds |-> NoServiceResult]

\* what the host may hand back for a call id
ServiceResults ==
    { ServiceResult(0, "\"a\""), ServiceResult(0, "a"), ServiceResult(1, "boom") }

\* serde_json::from_str on the result strings above: the JSON text of a
\* string parses to that string, a bare word is not JSON
JsonFromStr(str) ==
    CASE str = "\"a\"" -> [ok |-> TRUE, value |-> "a"]
      [] str = "\"b\"" -> [ok |-> TRUE, value |-> "b"]
      [] OTHER -> [ok |-> FALSE, value |-> NoVal]

\* the message try_to_service_result formats for a result that does not parse
DeErrorMsg(str) ==
    CASE str = "a" -> "call_service result 'a' can't be serialized or deserialized"
      [] str = "boom" -> "call_service result 'boom' can't be serialized or deserialized"
      [] OTHER -> "call_service result can't be serialized or deserialized"

----------------------------------------------------------------------------
(* call/call_result_setter: writing a call's result to its output.         *)

\* set_local_result: [err, ctx, state]; state is the new CallResult
set_local_result(c, node, v, pos) ==
    CASE node.outk = "scalar" ->
            LET set(r) ==
                    [err |-> r.err, ctx |-> [c EXCEPT !.scalars = r.scalars],
                     state |-> Executed(v, "scalar", 0)]
            IN  set(set_value(c.scalars, node.out, v))
      [] node.outk = "stream" ->
            LET set(r) ==
                    [err |-> r.err, ctx |-> [c EXCEPT !.streams = r.streams],
                     state |-> Executed(v, "stream", r.generation)]
            IN  set(add_stream_value(c.streams, node.out, StreamValue(v, pos), -1))
      [] OTHER -> [err |-> NoneRes, ctx |-> c, state |-> Executed(v, "scalar", 0)]

\* set_result_from_value: [err, ctx]
set_result_from_value(c, node, value, pos) ==
    CASE node.outk = "scalar" /\ value.vt = "scalar" ->
            LET set(r) == [err |-> r.err, ctx |-> [c EXCEPT !.scalars = r.scalars]]
            IN  set(set_value(c.scalars, node.out, value.v))
      [] node.outk = "stream" /\ value.vt = "stream" ->
            LET set(r) == [err |-> r.err, ctx |-> [c EXCEPT !.streams = r.streams]]
            IN  set(add_stream_value(c.streams, node.out,
                                     StreamValue(value.v, pos), value.gen))
      [] OTHER -> [err |-> NoneRes, ctx |-> c]

----------------------------------------------------------------------------
(* call/prev_result_handler.rs                                             *)

\* faulty descriptors: one asks for an execution after a replay, one loses
\* the marker of a call that is not ready
executed_again == [should_execute |-> TRUE, prev_state |-> NoState]
not_ready_lost(prev_state) == [should_execute |-> FALSE, prev_state |-> NoState]

\* StateDescriptor constructors
executed == [should_execute |-> FALSE, prev_state |-> NoState]
not_ready(prev_state) == [should_execute |-> FALSE, prev_state |-> prev_state]
can_execute_now(prev_state) == [should_execute |-> TRUE, prev_state |-> prev_state]
cant_execute_now(prev_state) == [should_execute |-> FALSE, prev_state |-> prev_state]
no_previous_state == [should_execute |-> TRUE, prev_state |-> NoState]

\* handle_service_error: [err, new]
handle_service_error(service_result, new) ==
    IF service_result.ret_code = CALL_SERVICE_SUCCESS
    THEN [err |-> NoneRes, new |-> new]
    ELSE [err |-> LocalServiceError(service_result.ret_code, service_result.result),
          new |-> meet_call_end(new, Failed(service_result.ret_code, service_result.result))]

\* a faulty try_to_service_result: the result string is taken as the value
try_to_service_result_raw(service_result, new) ==
    [err |-> NoneRes, value |-> service_result.result, new |-> new]

\* try_to_service_result: [err, value, new]
try_to_service_result(service_result, new) ==
    LET parsed == JsonFromStr(service_result.result)
        error_msg == DeErrorMsg(service_result.result)
    IN
    IF parsed.ok
    THEN [err |-> NoneRes, value |-> parsed.value, new |-> new]
    ELSE [err |-> LocalServiceError(I32_MAX, error_msg), value |-> NoVal,
          new |-> meet_call_end(new, Failed(I32_MAX, error_msg))]

\* update_state_with_service_result: [err, ctx, new]
update_state_with_service_result(c, new, node, service_result) ==
    LET set(t, s) ==
            IF IsErr(s.err) THEN [err |-> s.err, ctx |-> c, new |-> t.new]
            ELSE [err |-> NoneRes, ctx |-> s.ctx, new |-> meet_call_end(t.new, s.state)]
        parsed(t) ==
            IF IsErr(t.err) THEN [err |-> t.err, ctx |-> c, new |-> t.new]
            ELSE set(t, set_local_result(c, node, t.value, trace_pos(t.new)))
        checked(h) ==
            IF IsErr(h.err) THEN [err |-> h.err, ctx |-> c, new |-> h.new]
            ELSE parsed(try_to_service_result(service_result, h.new))
    IN  checked(handle_service_error(service_result, new))

\* a faulty handle_prev_state: any prior state lets the call execute now
handle_prev_state_eager(c, new, node, prev_result) ==
    [err |-> NoneRes, desc |-> can_execute_now(prev_result), ctx |-> c, new |-> new]

\* a faulty handle_prev_state: a failed call is not emitted again
handle_prev_state_silent(c, new, node, prev_result) ==
    [err |-> LocalServiceError(prev_result.code, prev_result.msg), desc |-> executed,
     ctx |-> c, new |-> new]

\* handle_prev_state: [err, desc, ctx, new]
handle_prev_state(c, new, node, prev_result) ==
    CASE prev_result.res = "failed" ->
            [err |-> LocalServiceError(prev_result.code, prev_result.msg),
             desc |-> executed,
             ctx |-> [c EXCEPT !.subgraph_complete = FALSE],
             new |-> meet_call_end(new, prev_result)]
      [] prev_result.res = "sent" /\ prev_result.id # 0
            /\ prev_result.peer = c.current_peer_id ->
            IF c.call_results[prev_result.id].present
            THEN LET updated(u) ==
                         [err |-> u.err, desc |-> executed, ctx |-> u.ctx, new |-> u.new]
                 IN  updated(update_state_with_service_result(
                         [c EXCEPT !.call_results[prev_result.id] = NoServiceResult],
                         new, node, c.call_results[prev_result.id]))
            ELSE [err |-> NoneRes, desc |-> not_ready(prev_result),
                  ctx |-> [c EXCEPT !.subgraph_complete = FALSE], new |-> new]
      [] prev_result.res = "sent"
            /\ ~(prev_result.id # 0 /\ prev_result.peer = c.current_peer_id) ->
            IF node.peer = c.current_peer_id
            THEN [err |-> NoneRes, desc |-> can_execute_now(prev_result),
                  ctx |-> c, new |-> new]
            ELSE [err |-> NoneRes, desc |-> cant_execute_now(prev_result),
                  ctx |-> [c EXCEPT !.subgraph_complete = FALSE], new |-> new]
      [] OTHER ->
            LET set(s) ==
                    IF IsErr(s.err)
                    THEN [err |-> s.err, desc |-> executed, ctx |-> c, new |-> new]
                    ELSE [err |-> NoneRes, desc |-> executed, ctx |-> s.ctx,
                          new |-> meet_call_end(new, prev_result)]
            IN  set(set_result_from_value(c, node, prev_result, trace_pos(new)))

\* a faulty maybe_set_prev_state: the prior state is dropped
maybe_set_prev_state_lost(desc, new) == new

\* StateDescriptor::maybe_set_prev_state
maybe_set_prev_state(desc, new) ==
    IF desc.prev_state # NoState THEN meet_call_end(new, desc.prev_state) ELSE new

----------------------------------------------------------------------------
(* The interpreter's state.                                                *)

Frame(n) ==
    [n |-> n, ph |-> 0, lres |-> NoneRes, lcomplete |-> FALSE,
     fsm |-> [prev_par |-> ParS(0, 0), current_par |-> ParS(0, 0), ins |-> 0,
              saved |-> 0, left_size |-> 0, prev_pos |-> 0, cur_pos |-> 0,
              prev_rest |-> 0, cur_rest |-> 0]]

Top == stack[Len(stack)]
Node == script[Top.n]

Running(op, ph) == pc = "running" /\ stack # <<>> /\ Node.op = op /\ Top.ph = ph

\* execute() returns r to its caller
Return(r) == stack' = SubSeq(stack, 1, Len(stack) - 1) /\ ret' = r

\* execute() of the child is called; the caller goes on in phase ph
Descend(child, ph, frame) ==
    /\ stack' = Append([stack EXCEPT ![Len(stack)] = [frame EXCEPT !.ph = ph]], Frame(child))
    /\ ret' = NoneRes

\* what a handler finds when it starts
Snapshot ==
    [ctx |-> ctx, new |-> tr.new, ret |-> ret, depth |-> Len(stack),
     top |-> IF stack = <<>> THEN Frame(0) ELSE Top]

\* ran: the instructions whose execute() has been called so far; eq / ne:
\* the match instructions that found their operands equal / different
NoEv ==
    [kind |-> "init", finished |-> FALSE, n |-> 0, ph |-> 0, case |-> "", how |-> "",
     prior |-> NoState, ps |-> NoState, cs |-> NoState, should_execute |-> FALSE,
     ran |-> {1}, eq |-> {}, ne |-> {}, run |-> 1]

Event(kind, case) ==
    [NoEv EXCEPT !.kind = kind, !.n = Top.n, !.ph = Top.ph, !.case = case,
                 !.ran = ev.ran \cup (IF Len(stack') > Len(stack)
                                      THEN {stack'[Len(stack')].n} ELSE {}),
                 !.eq = ev.eq, !.ne = ev.ne, !.run = ev.run]

\* the states a slider may hold at the position it reads
Draw(slider, alphabet) ==
    IF ~SliderAvail(slider) THEN {NoState}
    ELSE IF slider.given THEN {slider.trace[slider.pos + 1]}
    ELSE alphabet

\* the result of a call with no output variable is a scalar value
ValueType(node) ==
    CASE node.outk = "scalar" -> "scalar"
      [] node.outk = "stream" -> "stream"
      [] OTHER -> "scalar"

PrevCallStates(node) ==
    { Executed("a", ValueType(node), 0), Executed("b", ValueType(node), 1),
      Failed(1, "boom"), Sent("Q", 1), ApS(<<0>>) }
    \cup { Sent("P", id) : id \in 1..MaxCallId }

CurCallStates(node) ==
    { Executed("a", ValueType(node), IF node.outk = "stream" THEN 1 ELSE 0),
      Sent("Q", 0), ParS(0, 0) }

ParStates ==
    { ParS(l, r) : l \in 0..MaxParSize, r \in 0..MaxParSize } \cup { Failed(1, "boom") }

\* ExecutionCtx at the start of a step
NewCtx(peer, init, given) ==
    [current_peer_id |-> peer,
     init_peer_id |-> init,
     scalars |-> NoScalars,
     streams |-> NoStreams,
     canons |-> NoCanons,
     next_peer_pks |-> <<>>,
     subgraph_complete |-> TRUE,
     call_results |-> [id \in CallIds |->
                          IF id <= MaxCallId THEN given[id] ELSE NoServiceResult],
     call_requests |-> <<>>,
     last_call_request_id |-> MaxCallId,
     last_error |-> NoneRes]

NoOutcome ==
    [ret_code |-> 0, error_message |-> "", trace |-> <<>>,
     next_peer_pks |-> <<>>, call_requests |-> <<>>, lcid |-> 0]

Init ==
    /\ script \in Scripts
    /\ stack = <<Frame(1)>>
    /\ ret = NoneRes
    /\ \E peer \in CurrentPeers, init \in InitPeers(script),
          given \in [1..MaxCallId -> ServiceResults \cup {NoServiceResult}] :
          ctx = NewCtx(peer, init, given)
    /\ \E pl \in TraceLens, cl \in TraceLens :
          tr = [prev |-> Slider(pl), cur |-> Slider(cl), new |-> <<>>]
    /\ pc = "running"
    /\ outcome = NoOutcome
    /\ ev = NoEv
    /\ pre = [ctx |-> ctx, new |-> <<>>, ret |-> NoneRes, depth |-> 0, top |-> Frame(0)]

----------------------------------------------------------------------------
(* null                                                                    *)

ExecNull ==
    /\ Running("null", 0)
    /\ Return(OkRes)
    /\ ev' = Event("null", "")
    /\ pre' = Snapshot
    /\ UNCHANGED <<script, ctx, tr, pc, outcome>>

----------------------------------------------------------------------------
(* call                                                                    *)

\* a faulty set_remote_call_result: the target peer is not recorded
set_remote_call_result_quiet(peer_pk, c, new) ==
    [ctx |-> [c EXCEPT !.subgraph_complete = FALSE],
     new |-> Append(new, Sent(c.current_peer_id, 0))]

\* stepper-lib/src/air/call/utils.rs set_remote_call_result: [ctx, new]
set_remote_call_result(peer_pk, c, new) ==
    [ctx |-> [c EXCEPT !.next_peer_pks = Append(@, peer_pk),
                       !.subgraph_complete = FALSE],
     new |-> Append(new, Sent(c.current_peer_id, 0))]

\* the value of a call argument: [err, value]
resolve_arg(c, arg) ==
    CASE arg = NoVal -> [err |-> NoneRes, value |-> NoVal]
      [] arg = "%last_error%" -> [err |-> NoneRes, value |-> c.last_error.msg]
      [] OTHER ->
            IF ScalarDefined(c.scalars, arg)
            THEN [err |-> NoneRes, value |-> get_value(c.scalars, arg)]
            ELSE [err |-> VariableNotFound(arg), value |-> NoVal]

\* a call that executes on this peer: [err, ctx, new]
set_local_call_request(node, c, new) ==
    LET call_id == c.last_call_request_id + 1
        request(a) ==
            IF IsErr(a.err) THEN [err |-> a.err, ctx |-> c, new |-> new]
            ELSE [err |-> NoneRes,
                  ctx |-> [c EXCEPT !.last_call_request_id = call_id,
                                    !.call_requests =
                                        Append(@, [call_id |-> call_id, peer |-> node.peer,
                                                   arg |-> a.value]),
                                    !.subgraph_complete = FALSE],
                  new |-> meet_call_end(new, Sent(c.current_peer_id, call_id))]
    IN  request(resolve_arg(c, node.arg))

\* which branch of the call a merged prior state selects
call_case(c, err, prior) ==
    CASE IsErr(err) -> "merge_error"
      [] prior = NoState -> "no_prev"
      [] prior.res = "failed" -> "prev_failed"
      [] prior.res = "executed" -> "prev_executed"
      [] prior.id # 0 /\ prior.peer = c.current_peer_id ->
            IF c.call_results[prior.id].present
            THEN "prev_sent_mine_ready" ELSE "prev_sent_mine_not_ready"
      [] OTHER -> "prev_sent_other"

\* Call::execute after the merge: [ret, ctx, new, how, should_execute]
call_after_merge(c, new, node, h) ==
    LET out(r, c2, new2, how, se) ==
            [ret |-> r, ctx |-> c2, new |-> new2, how |-> how, should_execute |-> se]
        remote(r) == out(OkRes, r.ctx, r.new, "remote", TRUE)
        local(r) ==
            IF IsErr(r.err) THEN out(r.err, r.ctx, r.new, "arg_error", TRUE)
            ELSE out(OkRes, r.ctx, r.new, "local", TRUE)
    IN
    IF IsErr(h.err) THEN out(h.err, h.ctx, h.new, "error", FALSE)
    ELSE IF ~h.desc.should_execute
    THEN out(OkRes, h.ctx, maybe_set_prev_state(h.desc, h.new), "replay", FALSE)
    ELSE IF node.peer # c.current_peer_id
    THEN remote(set_remote_call_result(node.peer, h.ctx, h.new))
    ELSE local(set_local_call_request(node, h.ctx, h.new))

\* Call::execute on the merged prior state m: [ret, ctx, new, how, should_execute]
call_execute(c, new, node, m) ==
    IF IsErr(m.err)
    THEN [ret |-> m.err, ctx |-> c, new |-> new, how |-> "error", should_execute |-> FALSE]
    ELSE call_after_merge(c, new, node,
            IF m.state = NoState
            THEN [err |-> NoneRes, desc |-> no_previous_state, ctx |-> c, new |-> new]
            ELSE handle_prev_state(c, new, node, m.state))

\* the call has run: the registers take its result r
CallDone(ps, cs, m, r) ==
    /\ ctx' = r.ctx
    /\ tr' = [prev |-> next_state(tr.prev, ps), cur |-> next_state(tr.cur, cs),
              new |-> r.new]
    /\ Return(r.ret)
    /\ ev' = [Event("call", call_case(ctx, m.err, m.state)) EXCEPT
                  !.how = r.how, !.prior = m.state, !.ps = ps, !.cs = cs,
                  !.should_execute = r.should_execute]

CallMerged(ps, cs, m) == CallDone(ps, cs, m, call_execute(ctx, tr.new, Node, m))

ExecCall ==
    /\ Running("call", 0)
    /\ \E ps \in Draw(tr.prev, PrevCallStates(Node)), cs \in Draw(tr.cur, CurCallStates(Node)) :
          CallMerged(ps, cs, try_merge_next_state_as_call(ps, cs))
    /\ pre' = Snapshot
    /\ UNCHANGED <<script, pc, outcome>>

----------------------------------------------------------------------------
(* seq (air/seq.rs)                                                        *)

SeqStart ==
    /\ Running("seq", 0)
    /\ ctx' = [ctx EXCEPT !.subgraph_complete = TRUE]
    /\ Descend(Node.l, 1, Top)
    /\ ev' = Event("seq", "start")
    /\ pre' = Snapshot
    /\ UNCHANGED <<script, tr, pc, outcome>>

\* a faulty seq: the right instruction runs whatever the left one left
SeqLeftDoneAlways ==
    /\ Running("seq", 1)
    /\ IF IsErr(ret) THEN Return(ret) /\ ev' = Event("seq", "left_error")
       ELSE Descend(Node.r, 2, Top) /\ ev' = Event("seq", "run_right")
    /\ pre' = Snapshot
    /\ UNCHANGED <<script, ctx, tr, pc, outcome>>

\* a faulty seq: an error of the left instruction is dropped and the right
\* instruction runs
SeqLeftDoneOnError ==
    /\ Running("seq", 1)
    /\ IF ctx.subgraph_complete \/ IsErr(ret)
       THEN Descend(Node.r, 2, Top) /\ ev' = Event("seq", "run_right")
       ELSE Return(OkRes) /\ ev' = Event("seq", "skip_right")
    /\ pre' = Snapshot
    /\ UNCHANGED <<script, ctx, tr, pc, outcome>>

\* self.0.execute(..)? has returned
SeqLeftDone ==
    /\ Running("seq", 1)
    /\ IF IsErr(ret) THEN Return(ret) /\ ev' = Event("seq", "left_error")
       ELSE IF ctx.subgraph_complete
            THEN Descend(Node.r, 2, Top) /\ ev' = Event("seq", "run_right")
            ELSE Return(OkRes) /\ ev' = Event("seq", "skip_right")
    /\ pre' = Snapshot
    /\ UNCHANGED <<script, ctx, tr, pc, outcome>>

\* self.1.execute(..)? has returned
SeqRightDone ==
    /\ Running("seq", 2)
    /\ Return(IF IsErr(ret) THEN ret ELSE OkRes)
    /\ ev' = Event("seq", "right_done")
    /\ pre' = Snapshot
    /\ UNCHANGED <<script, ctx, tr, pc, outcome>>

----------------------------------------------------------------------------
(* xor                                                                     *)

XorStart ==
    /\ Running("xor", 0)
    /\ Descend(Node.l, 1, Top)
    /\ ev' = Event("xor", "start")
    /\ pre' = Snapshot
    /\ UNCHANGED <<script, ctx, tr, pc, outcome>>

\* the left branch has returned
XorLeftDone ==
    /\ Running("xor", 1)
    /\ IF IsErr(ret) /\ ret.catchable
       THEN /\ ctx' = [ctx EXCEPT !.last_error = ret]
            /\ Descend(Node.r, 2, [Top EXCEPT !.lres = ret])
            /\ ev' = Event("xor", "catch")
       ELSE /\ ctx' = ctx
            /\ Return(ret)
            /\ ev' = Event("xor", IF IsErr(ret) THEN "uncatchable" ELSE "left_ok")
    /\ pre' = Snapshot
    /\ UNCHANGED <<script, tr, pc, outcome>>

\* the right branch has returned
XorRightDone ==
    /\ Running("xor", 2)
    /\ Return(ret)
    /\ ev' = Event("xor", "right_done")
    /\ pre' = Snapshot
    /\ UNCHANGED <<script, ctx, tr, pc, outcome>>

----------------------------------------------------------------------------
(* match                                                                   *)

\* the value of a match / ap operand (a literal, %init_peer_id% or a
\* scalar): [err, value]
resolve_operand(c, kind, x) ==
    IF kind = "lit" THEN [err |-> NoneRes, value |-> x]
    ELSE IF kind = "init_peer_id" THEN [err |-> NoneRes, value |-> c.init_peer_id]
    ELSE IF ScalarDefined(c.scalars, x)
         THEN [err |-> NoneRes, value |-> get_value(c.scalars, x)]
         ELSE [err |-> VariableNotFound(x), value |-> NoVal]

MatchStart ==
    /\ Running("match", 0)
    /\ LET lhs == resolve_operand(ctx, Node.xk, Node.x)
           rhs == resolve_operand(ctx, Node.yk, Node.y)
       IN
       IF IsErr(lhs.err) THEN Return(lhs.err) /\ ev' = Event("match", "error")
       ELSE IF IsErr(rhs.err) THEN Return(rhs.err) /\ ev' = Event("match", "error")
       ELSE IF lhs.value = rhs.value
            THEN /\ Descend(Node.l, 1, Top)
                 /\ ev' = [Event("match", "equal") EXCEPT !.eq = @ \cup {Top.n}]
            ELSE /\ Return(MatchWithoutXorError)
                 /\ ev' = [Event("match", "differ") EXCEPT !.ne = @ \cup {Top.n}]
    /\ pre' = Snapshot
    /\ UNCHANGED <<script, ctx, tr, pc, outcome>>

MatchDone ==
    /\ Running("match", 1)
    /\ Return(ret)
    /\ ev' = Event("match", "body_done")
    /\ pre' = Snapshot
    /\ UNCHANGED <<script, ctx, tr, pc, outcome>>

----------------------------------------------------------------------------
(* par: the par FSM (state_automata/par_fsm.rs) and the executor.          *)

\* merger of par states: [err, prev_par, current_par]; a missing side is
\* ParResult::default()
try_merge_next_state_as_par(ps, cs) ==
    IF (ps = NoState \/ ps.t = "par") /\ (cs = NoState \/ cs.t = "par")
    THEN [err |-> NoneRes,
          prev_par |-> IF ps = NoState THEN ParS(0, 0) ELSE ps,
          current_par |-> IF cs = NoState THEN ParS(0, 0) ELSE cs]
    ELSE [err |-> TraceError("IncompatibleExecutedStates"),
          prev_par |-> ParS(0, 0), current_par |-> ParS(0, 0)]

\* a faulty prepare_sliders: the left sizes are set for either subtree
prepare_sliders_left(fsm, t, subtree_type) ==
    LET p == set_subtrace_len(t.prev, fsm.prev_par.l)
        c == set_subtrace_len(t.cur, fsm.current_par.l)
    IN
    IF ~p.ok THEN [ok |-> FALSE, tr |-> t]
    ELSE IF ~c.ok THEN [ok |-> FALSE, tr |-> [t EXCEPT !.prev = p.slider]]
    ELSE [ok |-> TRUE, tr |-> [t EXCEPT !.prev = p.slider, !.cur = c.slider]]

\* ParFSM::prepare_sliders: [ok, tr]
prepare_sliders(fsm, t, subtree_type) ==
    LET prev_len == IF subtree_type = "Left" THEN fsm.prev_par.l ELSE fsm.prev_par.r
        current_len == IF subtree_type = "Left" THEN fsm.current_par.l ELSE fsm.current_par.r
        p == set_subtrace_len(t.prev, prev_len)
        c == set_subtrace_len(t.cur, current_len)
    IN
    IF ~p.ok THEN [ok |-> FALSE, tr |-> t]
    ELSE IF ~c.ok THEN [ok |-> FALSE, tr |-> [t EXCEPT !.prev = p.slider]]
    ELSE [ok |-> TRUE, tr |-> [t EXCEPT !.prev = p.slider, !.cur = c.slider]]

\* CtxStateHandler::handle_subtree_end: the sliders go to the position after
\* the subtree with what is left of the parent window
handle_subtree_end(fsm, t, subtree_type) ==
    LET pused == IF subtree_type = "Left" THEN fsm.prev_par.l
                 ELSE fsm.prev_par.l + fsm.prev_par.r
        cused == IF subtree_type = "Left" THEN fsm.current_par.l
                 ELSE fsm.current_par.l + fsm.current_par.r
        p == set_position_and_len(t.prev, fsm.prev_pos + pused, fsm.prev_rest - pused)
        c == set_position_and_len(t.cur, fsm.cur_pos + cused, fsm.cur_rest - cused)
    IN
    [t EXCEPT !.prev = p.slider, !.cur = c.slider]

\* ParFSM::from_left_started, t is the handler after the par states were
\* read: [err, tr, fsm]
from_left_started(m, t, fsm0) ==
    LET inserted == [t EXCEPT !.new = Append(@, ParS(0, 0))]
        fsm == [fsm0 EXCEPT !.prev_par = m.prev_par, !.current_par = m.current_par,
                            !.ins = Len(t.new) + 1,
                            !.prev_pos = t.prev.pos, !.cur_pos = t.cur.pos,
                            !.prev_rest = interval_len(t.prev),
                            !.cur_rest = interval_len(t.cur)]
        fits == /\ m.prev_par.l + m.prev_par.r <= interval_len(t.prev)
                /\ m.current_par.l + m.current_par.r <= interval_len(t.cur)
                /\ t.prev.pos + m.prev_par.l + m.prev_par.r <= t.prev.len
                /\ t.cur.pos + m.current_par.l + m.current_par.r <= t.cur.len
        s == prepare_sliders(fsm, inserted, "Left")
    IN
    IF ~fits THEN [err |-> TraceError("ParLenUnderflow"), tr |-> inserted, fsm |-> fsm]
    ELSE IF ~s.ok THEN [err |-> TraceError("SliderError"), tr |-> s.tr, fsm |-> fsm]
    ELSE [err |-> NoneRes, tr |-> s.tr, fsm |-> fsm]

\* a faulty left_completed: the size of the left subtree is not tracked
left_completed_untracked(fsm, t) ==
    [tr |-> prepare_sliders(fsm, handle_subtree_end(fsm, t, "Left"), "Right").tr,
     fsm |-> fsm]

\* ParFSM::left_completed: [tr, fsm]
left_completed(fsm, t) ==
    LET tracked == [fsm EXCEPT !.left_size = Len(t.new) - fsm.ins]
        ended == handle_subtree_end(tracked, t, "Left")
    IN  [tr |-> prepare_sliders(tracked, ended, "Right").tr, fsm |-> tracked]

\* a faulty right_completed: the Par state is not built
right_completed_unbuilt(fsm, t) == handle_subtree_end(fsm, t, "Right")

\* ParFSM::right_completed: the new trace and sliders
right_completed(fsm, t) ==
    LET right_size == Len(t.new) - fsm.ins - fsm.left_size
        state == ParS(fsm.left_size, right_size)
        inserted == [t EXCEPT !.new[fsm.ins] = state]
    IN  handle_subtree_end(fsm, inserted, "Right")

\* a par branch failed: it raised a catchable error that is not joinable
BranchFailed(r) == IsErr(r) /\ r.catchable /\ ~r.joinable

ParStart ==
    /\ Running("par", 0)
    /\ \E ps \in Draw(tr.prev, ParStates), cs \in Draw(tr.cur, ParStates) :
          LET t1 == [tr EXCEPT !.prev = next_state(@, ps), !.cur = next_state(@, cs)]
              m == try_merge_next_state_as_par(ps, cs)
              f == from_left_started(m, t1, Top.fsm)
          IN
          IF IsErr(m.err)
          THEN /\ tr' = t1 /\ ctx' = ctx /\ Return(m.err)
               /\ ev' = [Event("par", "merge_error") EXCEPT !.ps = ps, !.cs = cs]
          ELSE IF IsErr(f.err)
          THEN /\ tr' = f.tr /\ ctx' = ctx /\ Return(f.err)
               /\ ev' = [Event("par", "fsm_error") EXCEPT !.ps = ps, !.cs = cs]
          ELSE /\ tr' = f.tr
               /\ ctx' = [ctx EXCEPT !.subgraph_complete = TRUE]
               /\ Descend(Node.l, 1, [Top EXCEPT !.fsm = f.fsm])
               /\ ev' = [Event("par", "left_started") EXCEPT !.ps = ps, !.cs = cs]
    /\ pre' = Snapshot
    /\ UNCHANGED <<script, pc, outcome>>

\* the left branch has returned
ParLeftDone ==
    /\ Running("par", 1)
    /\ IF IsErr(ret) /\ ~ret.catchable
       THEN /\ Return(ret) /\ tr' = tr /\ ctx' = ctx
            /\ ev' = Event("par", "left_uncatchable")
       ELSE LET l == left_completed(Top.fsm, tr) IN
            /\ tr' = l.tr
            /\ ctx' = [ctx EXCEPT !.subgraph_complete = TRUE]
            /\ Descend(Node.r, 2, [Top EXCEPT !.fsm = l.fsm, !.lres = ret,
                                       !.lcomplete = ~IsErr(ret) /\ ctx.subgraph_complete])
            /\ ev' = Event("par", IF IsErr(ret) THEN "left_error" ELSE "left_ok")
    /\ pre' = Snapshot
    /\ UNCHANGED <<script, pc, outcome>>

\* the right branch has returned
ParRightDone ==
    /\ Running("par", 2)
    /\ IF IsErr(ret) /\ ~ret.catchable
       THEN /\ Return(ret) /\ tr' = tr /\ ctx' = ctx
            /\ ev' = Event("par", "right_uncatchable")
       ELSE LET rcomplete == ~IsErr(ret) /\ ctx.subgraph_complete
                both_failed == BranchFailed(Top.lres) /\ BranchFailed(ret)
            IN
            /\ tr' = right_completed(Top.fsm, tr)
            /\ ctx' = [ctx EXCEPT !.subgraph_complete = Top.lcomplete \/ rcomplete]
            /\ Return(IF both_failed THEN ret ELSE OkRes)
            /\ ev' = Event("par", IF both_failed THEN "both_failed" ELSE "right_done")
    /\ pre' = Snapshot
    /\ UNCHANGED <<script, pc, outcome>>

----------------------------------------------------------------------------
(* ap (air/ap.rs, air/ap/utils.rs, merger/ap_merger.rs)                    *)

\* MergerApResult: Empty, or ApResult with res_generation (-1 is None)
MergerApEmpty == [empty |-> TRUE, res_generation |-> -1]
MergerApResult(g) == [empty |-> FALSE, res_generation |-> g]

\* a faulty to_merger_result: the first generation is taken, however many
\* there are
to_merger_result_first(ap_result) ==
    [err |-> NoneRes,
     res |-> MergerApResult(IF Len(ap_result.gens) = 0 THEN -1 ELSE ap_result.gens[1])]

\* ap_merger.rs to_merger_result: [err, res]
to_merger_result(ap_result) ==
    CASE Len(ap_result.gens) = 0 -> [err |-> NoneRes, res |-> MergerApResult(-1)]
      [] Len(ap_result.gens) = 1 -> [err |-> NoneRes, res |-> MergerApResult(ap_result.gens[1])]
      [] OTHER -> [err |-> TraceError("IncorrectApResult"), res |-> MergerApEmpty]

\* a faulty try_merge_next_state_as_ap: an Ap state held by the current
\* trace alone gives its generation
try_merge_next_state_as_ap_current(ps, cs) ==
    CASE ps.t = "ap" -> to_merger_result(ps)
      [] ps = NoState /\ cs.t = "ap" -> to_merger_result(cs)
      [] ps = NoState /\ cs = NoState -> [err |-> NoneRes, res |-> MergerApEmpty]
      [] OTHER -> [err |-> TraceError("IncompatibleExecutedStates"), res |-> MergerApEmpty]

\* ap_merger.rs try_merge_next_state_as_ap: [err, res]
try_merge_next_state_as_ap(ps, cs) ==
    CASE ps.t = "ap" -> to_merger_result(ps)
      [] ps = NoState /\ cs.t = "ap" -> [err |-> NoneRes, res |-> MergerApEmpty]
      [] ps = NoState /\ cs = NoState -> [err |-> NoneRes, res |-> MergerApEmpty]
      [] OTHER -> [err |-> TraceError("IncompatibleExecutedStates"), res |-> MergerApEmpty]

\* a faulty match_position: every recorded result corresponds
match_position_any(kind, generation) == TRUE

\* utils.rs match_position
match_position(kind, generation) ==
    \/ kind = "stream" /\ generation >= 0
    \/ kind # "stream" /\ generation < 0

\* utils.rs try_match_result_to_instr: the source of an ap is a scalar or a
\* literal here, it has no generation
try_match_result_to_instr(merger_ap_result, instr) ==
    IF merger_ap_result.empty THEN NoneRes
    ELSE IF match_position(instr.xk, -1) /\ match_position(instr.outk, merger_ap_result.res_generation)
         THEN NoneRes
         ELSE ApResultNotCorrespondToInstr

\* ap.rs ap_result_to_generation for the destination: < 0 is Generation::Last
ap_result_to_generation(merger_ap_result) ==
    IF merger_ap_result.empty THEN -1 ELSE merger_ap_result.res_generation

\* utils.rs variable_to_generations
variable_to_generations(kind, name, c) ==
    IF kind = "stream" THEN <<generations_count(c.streams[name])>> ELSE <<>>

\* utils.rs to_ap_result
to_ap_result(merger_ap_result, instr, c) ==
    IF ~merger_ap_result.empty
    THEN ApS(IF merger_ap_result.res_generation < 0 THEN <<>>
             ELSE <<merger_ap_result.res_generation>>)
    ELSE ApS(variable_to_generations(instr.outk, instr.out, c))

\* Ap::execute: [ret, ctx, tr, case, res]
ap_execute(c, t, node, ps, cs) ==
    LET t1 == [t EXCEPT !.prev = next_state(@, ps), !.cur = next_state(@, cs)]
        m == try_merge_next_state_as_ap(ps, cs)
        matched == try_match_result_to_instr(m.res, node)
        src == resolve_operand(c, node.xk, node.x)
        w == IF node.outk = "scalar"
             THEN LET r == set_value(c.scalars, node.out, src.value) IN
                  [err |-> r.err, ctx |-> [c EXCEPT !.scalars = r.scalars]]
             ELSE LET r == add_stream_value(c.streams, node.out,
                               StreamValue(src.value, trace_pos(t1.new)),
                               ap_result_to_generation(m.res)) IN
                  [err |-> r.err, ctx |-> [c EXCEPT !.streams = r.streams]]
        out(r, c2, new, case) ==
            [ret |-> r, ctx |-> c2, tr |-> [t1 EXCEPT !.new = new], case |-> case,
             res |-> m.res]
    IN
    IF IsErr(m.err) THEN out(m.err, c, t1.new, "merge_error")
    ELSE IF IsErr(matched) THEN out(matched, c, t1.new, "not_correspond")
    ELSE IF IsErr(src.err) THEN out(src.err, c, t1.new, "src_error")
    ELSE IF IsErr(w.err) THEN out(w.err, c, t1.new, "dst_error")
    ELSE out(OkRes, w.ctx, Append(t1.new, to_ap_result(m.res, node, w.ctx)),
             IF m.res.empty THEN "fresh" ELSE "replay")

ApPrevStates == { ApS(<<>>), ApS(<<0>>), ApS(<<0, 1>>), Sent("Q", 1) }
ApCurStates == { ApS(<<0>>), ApS(<<1>>), Sent("Q", 0) }

ExecAp ==
    /\ Running("ap", 0)
    /\ \E ps \in Draw(tr.prev, ApPrevStates), cs \in Draw(tr.cur, ApCurStates) :
          LET r == ap_execute(ctx, tr, Node, ps, cs) IN
          /\ ctx' = r.ctx
          /\ tr' = r.tr
          /\ Return(r.ret)
          /\ ev' = [Event("ap", r.case) EXCEPT !.ps = ps, !.cs = cs,
                        !.prior = IF r.res.empty THEN NoState ELSE ps]
    /\ pre' = Snapshot
    /\ UNCHANGED <<script, pc, outcome>>

----------------------------------------------------------------------------
(* canon (air/canon.rs)                                                    *)

\* merger of canon states: [err, state]; state = NoState is Empty
try_merge_next_state_as_canon(ps, cs) ==
    CASE ps = NoState /\ cs = NoState -> [err |-> NoneRes, state |-> NoState]
      [] ps.t = "canon" /\ cs = NoState -> [err |-> NoneRes, state |-> ps]
      [] ps = NoState /\ cs.t = "canon" -> [err |-> NoneRes, state |-> cs]
      [] ps.t = "canon" /\ cs.t = "canon" ->
            IF ps = cs THEN [err |-> NoneRes, state |-> ps]
            ELSE [err |-> TraceError("CanonResultsAreNotEqual"), state |-> NoState]
      [] OTHER -> [err |-> TraceError("IncompatibleExecutedStates"), state |-> NoState]

\* Stream::get_value_by_pos: the values recorded at a trace position
ValuesByPos(stream, position) ==
    LET all == Flatten(stream) IN
    { i \in 1..Len(all) : all[i].trace_pos = position }

\* create_canon_stream_from_pos: [err, canon_stream]
create_canon_stream_from_pos(stream_elements_pos, stream_name, c) ==
    LET stream == c.streams[stream_name]
        all == Flatten(stream)
        missing == { i \in 1..Len(stream_elements_pos) :
                        ValuesByPos(stream, stream_elements_pos[i]) = {} }
    IN
    IF stream = <<>>
    THEN [err |-> StreamsForCanonNotFound(stream_name), canon_stream |-> <<>>]
    ELSE IF missing # {}
    THEN [err |-> VariableNotFoundByPos("position"), canon_stream |-> <<>>]
    ELSE [err |-> NoneRes,
          canon_stream |->
              [i \in 1..Len(stream_elements_pos) |->
                  all[CHOOSE k \in ValuesByPos(stream, stream_elements_pos[i]) :
                          \A j \in ValuesByPos(stream, stream_elements_pos[i]) : k <= j].value]]

\* create_canon_stream_from_name: [err, canon_stream, stream_elements_pos]
create_canon_stream_from_name(stream_name, c) ==
    LET stream == c.streams[stream_name]
        all == Flatten(stream)
    IN
    IF stream = <<>>
    THEN [err |-> StreamsForCanonNotFound(stream_name), canon_stream |-> <<>>,
          stream_elements_pos |-> <<>>]
    ELSE [err |-> NoneRes,
          canon_stream |-> [i \in 1..Len(all) |-> all[i].value],
          stream_elements_pos |-> [i \in 1..Len(all) |-> all[i].trace_pos]]

\* epilog: [ctx, new]
epilog(canon_stream_name, canon_stream, stream_elements_pos, c, new) ==
    [ctx |-> [c EXCEPT !.canons = add_canon(@, canon_stream_name, canon_stream)],
     new |-> Append(new, CanonS(stream_elements_pos))]

\* handle_seen_canon: [ret, ctx, new]
handle_seen_canon(node, stream_elements_pos, c, new) ==
    LET cs == create_canon_stream_from_pos(stream_elements_pos, node.x, c)
        e == epilog(node.out, cs.canon_stream, stream_elements_pos, c, new)
    IN
    IF IsErr(cs.err) THEN [ret |-> cs.err, ctx |-> c, new |-> new]
    ELSE [ret |-> OkRes, ctx |-> e.ctx, new |-> e.new]

\* a faulty handle_unseen_canon: the peer of the instruction is not looked
\* at, the stream is canonicalized wherever the instruction is met
handle_unseen_canon_anywhere(node, c, new) ==
    LET cs == create_canon_stream_from_name(node.x, c)
        e == epilog(node.out, cs.canon_stream, cs.stream_elements_pos, c, new)
    IN
    IF IsErr(cs.err) THEN [ret |-> cs.err, ctx |-> c, new |-> new]
    ELSE [ret |-> OkRes, ctx |-> e.ctx, new |-> e.new]

\* handle_unseen_canon: [ret, ctx, new]
handle_unseen_canon(node, c, new) ==
    IF c.current_peer_id # node.peer
    THEN [ret |-> OkRes,
          ctx |-> [c EXCEPT !.subgraph_complete = FALSE,
                            !.next_peer_pks = Append(@, node.peer)],
          new |-> new]
    ELSE LET cs == create_canon_stream_from_name(node.x, c)
             e == epilog(node.out, cs.canon_stream, cs.stream_elements_pos, c, new)
         IN
         IF IsErr(cs.err) THEN [ret |-> cs.err, ctx |-> c, new |-> new]
         ELSE [ret |-> OkRes, ctx |-> e.ctx, new |-> e.new]

CanonPrevStates == { CanonS(<<>>), CanonS(<<0>>), CanonS(<<2>>), Sent("Q", 1) }
CanonCurStates == { CanonS(<<>>), CanonS(<<0>>) }

ExecCanon ==
    /\ Running("canon", 0)
    /\ \E ps \in Draw(tr.prev, CanonPrevStates), cs \in Draw(tr.cur, CanonCurStates) :
          LET t1 == [tr EXCEPT !.prev = next_state(@, ps), !.cur = next_state(@, cs)]
              m == try_merge_next_state_as_canon(ps, cs)
              r == IF m.state = NoState THEN handle_unseen_canon(Node, ctx, t1.new)
                   ELSE handle_seen_canon(Node, m.state.gens, ctx, t1.new)
          IN
          IF IsErr(m.err)
          THEN /\ ctx' = ctx /\ tr' = t1 /\ Return(m.err)
               /\ ev' = [Event("canon", "merge_error") EXCEPT !.ps = ps, !.cs = cs]
          ELSE /\ ctx' = r.ctx
               /\ tr' = [t1 EXCEPT !.new = r.new]
               /\ Return(r.ret)
               /\ ev' = [Event("canon", IF IsErr(r.ret) THEN "error"
                                        ELSE IF m.state = NoState THEN "unseen" ELSE "seen")
                            EXCEPT !.ps = ps, !.cs = cs, !.prior = m.state]
    /\ pre' = Snapshot
    /\ UNCHANGED <<script, pc, outcome>>

----------------------------------------------------------------------------
(* The runner: the root instruction has returned, the outcome is built.    *)

\* a faulty from_execution_result: the data is written with the lcid of
\* fresh data
from_execution_result_new(trace, last_call_request_id) ==
    [trace |-> trace, last_call_request_id |-> 0]

\* InterpreterData::from_execution_result: the trace and the lcid of the
\* data a step returns
from_execution_result(trace, last_call_request_id) ==
    [trace |-> trace, last_call_request_id |-> last_call_request_id]

Finish ==
    /\ pc = "running"
    /\ stack = <<>>
    /\ pc' = "done"
    /\ LET data == from_execution_result(tr.new, ctx.last_call_request_id) IN
       outcome' = [ret_code |-> IF IsErr(ret) THEN to_error_code(ret) ELSE 0,
                   error_message |-> IF IsErr(ret) THEN ret.msg ELSE "",
                   trace |-> data.trace,
                   next_peer_pks |-> ctx.next_peer_pks,
                   call_requests |-> ctx.call_requests,
                   lcid |-> data.last_call_request_id]
    /\ ev' = [ev EXCEPT !.finished = TRUE]
    /\ UNCHANGED <<script, stack, ret, ctx, tr, pre>>

\* the host runs the script again on the data a failed step returned
\* (tests/test_module/instructions/match_.rs, match_without_xor): the
\* previous data is the returned trace, there is no current data and there
\* are no service results
Rerun ==
    /\ pc = "done"
    /\ ev.run < MaxRuns
    /\ outcome.ret_code # 0
    /\ outcome.lcid <= MaxCallId + MaxNewCalls
    /\ pc' = "running"
    /\ stack' = <<Frame(1)>>
    /\ ret' = NoneRes
    /\ ctx' = [ctx EXCEPT !.scalars = NoScalars, !.streams = NoStreams,
                          !.canons = NoCanons, !.next_peer_pks = <<>>,
                          !.subgraph_complete = TRUE,
                          !.call_results = NoServiceResults,
                          !.call_requests = <<>>, !.last_error = NoneRes,
                          !.last_call_request_id = outcome.lcid]
    /\ tr' = [prev |-> GivenSlider(outcome.trace), cur |-> Slider(0), new |-> <<>>]
    /\ ev' = [NoEv EXCEPT !.run = ev.run + 1]
    /\ pre' = [ctx |-> ctx', new |-> <<>>, ret |-> NoneRes, depth |-> 0, top |-> Frame(0)]
    /\ UNCHANGED <<script, outcome>>

Next ==
    \/ ExecNull
    \/ ExecCall
    \/ SeqStart
    \/ SeqLeftDone
    \/ SeqRightDone
    \/ XorStart
    \/ XorLeftDone
    \/ XorRightDone
    \/ MatchStart
    \/ MatchDone
    \/ ParStart
    \/ ParLeftDone
    \/ ParRightDone
    \/ ExecAp
    \/ ExecCanon
    \/ Finish
    \/ Rerun

Spec == Init /\ [][Next]_vars

----------------------------------------------------------------------------
(* The canon instruction on its own: scripts that canonicalize a stream    *)
(* with no, one or two values, on the target peer "P" or on another peer.  *)

CanonScripts ==
    { <<CanonI("P", "s", "c")>>,
      <<CanonI("Q", "s", "c")>>,
      <<SeqI(2, 3), ApI("lit", "a", "stream", "s"), CanonI("P", "s", "c")>>,
      <<SeqI(2, 3), ApI("lit", "a", "stream", "s"), CanonI("Q", "s", "c")>>,
      <<SeqI(2, 3), SeqI(4, 5), CanonI("P", "s", "c"),
        ApI("lit", "b", "stream", "s"), ApI("lit", "a", "stream", "s")>> }

CanonInit ==
    /\ script \in CanonScripts
    /\ stack = <<Frame(1)>>
    /\ ret = NoneRes
    /\ \E peer \in CurrentPeers :
          ctx = NewCtx(peer, "P", [id \in 1..MaxCallId |-> NoServiceResult])
    /\ \E pl \in TraceLens, cl \in TraceLens :
          tr = [prev |-> Slider(pl), cur |-> Slider(cl), new |-> <<>>]
    /\ pc = "running"
    /\ outcome = NoOutcome
    /\ ev = NoEv
    /\ pre = [ctx |-> ctx, new |-> <<>>, ret |-> NoneRes, depth |-> 0, top |-> Frame(0)]

CanonNext ==
    \/ SeqStart
    \/ SeqLeftDone
    \/ SeqRightDone
    \/ ExecAp
    \/ ExecCanon
    \/ Finish
    \/ Rerun

CanonSpec == CanonInit /\ [][CanonNext]_vars

----------------------------------------------------------------------------
(* The mergers on their own: a pair of states, one of the previous and one *)
(* of the current trace (NoState for a side that has none), is drawn and a *)
(* merger is applied to it.  ev.ps and ev.cs hold the pair, ev.prior the   *)
(* merged state and ret the merger's result.                               *)

MergeStates ==
    { NoState, ParS(0, 0),
      Executed("a", "scalar", 0), Executed("b", "scalar", 0),
      Executed("a", "stream", 0), Executed("a", "stream", 1), Executed("b", "stream", 0),
      Sent("P", 1), Sent("Q", 0), Sent("Q", 1),
      Failed(1, "boom"), Failed(2, "boom"),
      ApS(<<>>), ApS(<<0>>), ApS(<<1>>), ApS(<<0, 1>>) }

MergerInit ==
    /\ script = <<NullI>>
    /\ stack = <<>>
    /\ ret = NoneRes
    /\ ctx = NewCtx("P", "P", [id \in 1..MaxCallId |-> NoServiceResult])
    /\ tr = [prev |-> Slider(0), cur |-> Slider(0), new |-> <<>>]
    /\ pc = "merge"
    /\ outcome = NoOutcome
    /\ \E ps \in MergeStates, cs \in MergeStates :
          ev = [NoEv EXCEPT !.kind = "states", !.ps = ps, !.cs = cs]
    /\ pre = [ctx |-> ctx, new |-> <<>>, ret |-> NoneRes, depth |-> 0, top |-> Frame(0)]

\* a merger has given m = [err, state] for the pair
Merged(kind, m) ==
    /\ pc' = "merged"
    /\ ret' = IF IsErr(m.err) THEN m.err ELSE OkRes
    /\ ev' = [ev EXCEPT !.kind = kind, !.prior = m.state]
    /\ UNCHANGED <<script, stack, ctx, tr, outcome, pre>>

MergeAsCall ==
    /\ pc = "merge"
    /\ Merged("merge_call", try_merge_next_state_as_call(ev.ps, ev.cs))

\* MergerApResult as a state: Empty is NoState, ApResult is an Ap state
\* with the result's generation
ApResultAsState(m) ==
    [err |-> m.err,
     state |-> IF m.res.empty THEN NoState
               ELSE IF m.res.res_generation < 0 THEN ApS(<<>>)
               ELSE ApS(<<m.res.res_generation>>)]

MergeAsAp ==
    /\ pc = "merge"
    /\ Merged("merge_ap", ApResultAsState(try_merge_next_state_as_ap(ev.ps, ev.cs)))

MergerNext ==
    \/ MergeAsCall
    \/ MergeAsAp

MergerSpec == MergerInit /\ [][MergerNext]_vars

----------------------------------------------------------------------------
(* The classification of errors on its own: a variant of ExecutionError is *)
(* drawn with the text it carries (ev.case and ev.how hold them), then the *)
(* error is built and classified; ret holds the error.                     *)

\* the variants of ExecutionError
ErrorKinds ==
    {"IncorrectCallTriplet", "LocalServiceError", "VariableNotFound",
     "MultipleVariablesFound", "JValueJsonPathError", "GenerationStreamJsonPathError",
     "StreamJsonPathError", "EmptyStreamJsonPathError", "IncompatibleJValueType",
     "IncompatibleAValueType", "MultipleValuesInJsonPath", "FoldStateNotFound",
     "MultipleFoldStates", "IterableShadowing", "MatchWithoutXorError",
     "MismatchWithoutXorError", "FlatteningError", "JsonPathVariableTypeError",
     "TraceError", "StreamDontHaveSuchGeneration", "ApResultNotCorrespondToInstr"}

\* an ExecutionError as execute() returns it
ExecutionError(kind, msg) ==
    [kind |-> kind, catchable |-> is_catchable(kind), joinable |-> is_joinable(kind),
     code |-> 0, msg |-> msg]

ErrorInit ==
    /\ script = <<NullI>>
    /\ stack = <<>>
    /\ ret = NoneRes
    /\ ctx = NewCtx("P", "P", [id \in 1..MaxCallId |-> NoServiceResult])
    /\ tr = [prev |-> Slider(0), cur |-> Slider(0), new |-> <<>>]
    /\ pc = "raise"
    /\ outcome = NoOutcome
    /\ \E kind \in ErrorKinds, name \in Names :
          ev = [NoEv EXCEPT !.kind = "error", !.case = kind, !.how = name]
    /\ pre = [ctx |-> ctx, new |-> <<>>, ret |-> NoneRes, depth |-> 0, top |-> Frame(0)]

RaiseError ==
    /\ pc = "raise"
    /\ pc' = "raised"
    /\ ret' = ExecutionError(ev.case, ev.how)
    /\ UNCHANGED <<script, stack, ctx, tr, outcome, ev, pre>>

ErrorNext ==
    \/ RaiseError

ErrorSpec == ErrorInit /\ [][ErrorNext]_vars

----------------------------------------------------------------------------
(* The scalars on their own: the operations of Scalars as call, fold and   *)
(* the readers of variables apply them.  stack holds the folds whose body  *)
(* is running, ev the operation applied last with what it returned, ret    *)
(* its result and pre.ctx the context it found (for the end of a fold      *)
(* ev.value is the depth the fold started at).  After an uncatchable       *)
(* error (pc = "unwinding") the enclosing folds only leave their scopes.   *)

\* the names that calls write and the names that folds use as iterators
ScalarNames == {"x", "y"}
IteratorNames == {"y", "z"}
ScalarValues == {"a", "b"}

FoldFrame(iterator, depth) == [iterator |-> iterator, depth |-> depth]

ScalarsEv(op, name, value, returned) ==
    [op |-> op, name |-> name, value |-> value, returned |-> returned]

ScalarsInit ==
    /\ script = <<NullI>>
    /\ stack = <<>>
    /\ ret = NoneRes
    /\ ctx = NewCtx("P", "P", [id \in 1..MaxCallId |-> NoServiceResult])
    /\ tr = [prev |-> Slider(0), cur |-> Slider(0), new |-> <<>>]
    /\ pc = "scalars"
    /\ outcome = NoOutcome
    /\ ev = ScalarsEv("init", "", NoVal, FALSE)
    /\ pre = [ctx |-> ctx, new |-> <<>>, ret |-> NoneRes, depth |-> 0, top |-> Frame(0)]

\* the registers an operation on the scalars leaves alone
ScalarsFrame ==
    /\ pre' = [ctx |-> ctx, new |-> <<>>, ret |-> ret, depth |-> Len(stack), top |-> Frame(0)]
    /\ UNCHANGED <<script, tr, outcome>>

\* a call or an ap writes its result to a scalar
ScalarSet ==
    /\ pc = "scalars"
    /\ \E name \in ScalarNames, value \in ScalarValues :
          LET r == set_value(ctx.scalars, name, value) IN
          /\ ctx' = [ctx EXCEPT !.scalars = r.scalars]
          /\ ret' = IF IsErr(r.err) THEN r.err ELSE OkRes
          /\ pc' = IF IsErr(r.err) THEN "unwinding" ELSE pc
          /\ ev' = ScalarsEv("set_value", name, value, r.prior)
    /\ stack' = stack
    /\ ScalarsFrame

\* an instruction reads a variable
ScalarGet ==
    /\ pc = "scalars"
    /\ \E name \in ScalarNames \cup IteratorNames :
          /\ ev' = ScalarsEv("get", name, get(ctx.scalars, name), FALSE)
          /\ ret' = IF get(ctx.scalars, name) = "VariableNotFound"
                    THEN VariableNotFound(name) ELSE OkRes
    /\ UNCHANGED <<ctx, stack, pc>>
    /\ ScalarsFrame

\* fold, up to the call of the body: the scope is opened and the iterator
\* bound; a failure to bind returns at once
FoldStart ==
    /\ pc = "scalars"
    /\ Len(stack) < MaxFoldDepth
    /\ \E iterator \in IteratorNames :
          LET r == set_iterable_value(meet_scope_start(ctx.scalars), iterator) IN
          /\ ctx' = [ctx EXCEPT !.scalars = r.scalars]
          /\ ev' = ScalarsEv("fold_start", iterator, NoVal, ~IsErr(r.err))
          /\ IF IsErr(r.err)
             THEN ret' = r.err /\ pc' = "unwinding" /\ stack' = stack
             ELSE /\ ret' = NoneRes /\ pc' = pc
                  /\ stack' = Append(stack, FoldFrame(iterator, ctx.scalars.fold_block_id))
    /\ ScalarsFrame

\* fold, after the body has returned Ok or an error: the iterator is
\* removed and the scope closed, the result of the body is returned
FoldEnd ==
    /\ pc \in {"scalars", "unwinding"}
    /\ stack # <<>>
    /\ ctx' = [ctx EXCEPT !.scalars =
                  meet_scope_end(remove_iterable_value(@, stack[Len(stack)].iterator))]
    /\ \E result \in IF pc = "unwinding" THEN {ret}
                      ELSE {OkRes, LocalServiceError(1, "boom")} : ret' = result
    /\ ev' = ScalarsEv("fold_end", stack[Len(stack)].iterator, stack[Len(stack)].depth, TRUE)
    /\ stack' = SubSeq(stack, 1, Len(stack) - 1)
    /\ pc' = pc
    /\ ScalarsFrame

ScalarsNext ==
    \/ ScalarSet
    \/ ScalarGet
    \/ FoldStart
    \/ FoldEnd

ScalarsSpec == ScalarsInit /\ [][ScalarsNext]_vars

----------------------------------------------------------------------------
(* The CID store.  A JSON value is a record of one shape; its CID is made  *)
(* from the bytes of its JSON serialization.  ctx.cids is the CidTracker   *)
(* of the step, tr.prev and tr.cur are the states of the input traces that *)
(* refer to a CID, tr.new is the output trace, outcome is what the step    *)
(* returns.                                                                *)

MaxCidStates == 2

JStr(s) == [t |-> "string", s |-> s, n |-> 0, items |-> <<>>]
JNum(n) == [t |-> "number", s |-> "", n |-> n, items |-> <<>>]
JArr(items) == [t |-> "array", s |-> "", n |-> 0, items |-> items]
JObj(key, n) == [t |-> "object", s |-> key, n |-> n, items |-> <<>>]

\* values of test_store, and the string "1" next to the number 1
JValues == { JNum(1), JStr("1"), JArr(<<1, 2, 3>>), JObj("key", 42) }

\* the state a value is recorded by: an array is the result of a canon
KindOf(value) == IF value.t = "array" THEN "canon" ELSE "executed"

NoJValue == [t |-> "none", s |-> "", n |-> 0, items |-> <<>>]

RECURSIVE Joined(_)
\* the elements of an array, separated by commas
Joined(items) ==
    IF items = <<>> THEN <<>>
    ELSE IF Len(items) = 1 THEN <<ToString(items[1])>>
    ELSE <<ToString(items[1]), ",">> \o Joined(Tail(items))

\* serde_json::to_vec: the bytes of the JSON text of a value, as tokens
to_vec(value) ==
    CASE value.t = "string" -> <<"\"", value.s, "\"">>
      [] value.t = "number" -> <<ToString(value.n)>>
      [] value.t = "array" -> <<"[">> \o Joined(value.items) \o <<"]">>
      [] OTHER -> <<"{", "\"", value.s, "\"", ":", ToString(value.n), "}">>

JSON_CODEC == 512

\* Code::Sha2_256.digest: the digest stands for the bytes it was made from,
\* no two byte strings share one
Sha2_256(data) == <<"sha2-256">> \o data

\* CID::new: a CID made from a string
CID_new(cid_str) == [codec |-> 0, digest |-> <<cid_str>>]

\* json_data_cid: a version 1 CID with the JSON codec over the digest
json_data_cid(data) == [codec |-> JSON_CODEC, digest |-> Sha2_256(data)]

\* value_to_json_cid
value_to_json_cid(value) == json_data_cid(to_vec(value))

\* the CIDs of the model: those of the values, and one that no value has
Lorem == CID_new("loremimpsumdolorsitament")
CidSpace == { value_to_json_cid(v) : v \in JValues } \cup { Lorem }

\* HashMap<CID, Rc<Val>>, NoJValue where the map has no entry
NoCids == [cid \in CidSpace |-> NoJValue]

\* CidStore::get and CidTracker::get: the value, or NoJValue for None
cid_get(cids, cid) == cids[cid]

\* a faulty from_cid_stores: the current store is dropped
from_cid_stores_prev_only(prev_cid_map, current_cid_map) == prev_cid_map

\* CidTracker::from_cid_stores: the previous store, with every entry of the
\* current store inserted over it
from_cid_stores(prev_cid_map, current_cid_map) ==
    [cid \in CidSpace |->
        IF current_cid_map[cid] # NoJValue THEN current_cid_map[cid] ELSE prev_cid_map[cid]]

\* a faulty track_value: the CID is computed, the value is not stored
track_value_unstored(cids, value) ==
    [cid |-> value_to_json_cid(value), cids |-> cids]

\* CidTracker::track_value: [cid, cids]
track_value(cids, value) ==
    LET cid == value_to_json_cid(value) IN
    [cid |-> cid, cids |-> [cids EXCEPT ![cid] = value]]

\* From<CidTracker> for CidStore
CidStore_from(cids) == cids

\* CidStore::check_reference
check_reference(store, target_cid) ==
    IF store[target_cid] = NoJValue THEN "MissingReference" ELSE "Ok"

\* CidStore::verify: every entry is stored under the CID of its value
verify(store) ==
    \A cid \in CidSpace : store[cid] # NoJValue => value_to_json_cid(store[cid]) = cid

\* the store that holds the given values
StoreOf(values) ==
    [cid \in CidSpace |->
        IF \E v \in values : value_to_json_cid(v) = cid
        THEN CHOOSE v \in values : value_to_json_cid(v) = cid
        ELSE NoJValue]

\* a state of a trace that refers to a CID
CidState(t, cid) == [t |-> t, cid |-> cid]

\* the traces that come with a store: at most one state, referring to an
\* entry of the store
TracesOver(store) ==
    { <<>> } \cup { <<CidState(KindOf(store[cid]), cid)>> :
                      cid \in { c \in CidSpace : store[c] # NoJValue } }

\* the values an input store holds: at most one
InputStores == { s \in SUBSET JValues : Cardinality(s) <= 1 }

\* what the last operation on the tracker was given and returned; known:
\* the CIDs that came with the input stores or were tracked; tracked: the
\* CIDs tracked in this step
CidEv(op, value, cid, got) ==
    [op |-> op, value |-> value, cid |-> cid, got |-> got,
     known |-> IF op = "init" THEN { c \in CidSpace : ctx.cids[c] # NoJValue }
               ELSE ev.known \cup (IF op = "track" THEN {cid} ELSE {}),
     tracked |-> IF op = "init" THEN {}
                 ELSE ev.tracked \cup (IF op = "track" THEN {cid} ELSE {})]

\* the input data of a step: two verified stores and the traces over them
CidInit ==
    /\ script = <<NullI>>
    /\ stack = <<>>
    /\ ret = NoneRes
    /\ \E pv \in InputStores, cv \in InputStores :
          /\ verify(StoreOf(pv)) /\ verify(StoreOf(cv))
          /\ ctx = [prev_cid_map |-> StoreOf(pv), current_cid_map |-> StoreOf(cv),
                    cids |-> from_cid_stores(StoreOf(pv), StoreOf(cv))]
          /\ \E pt \in TracesOver(StoreOf(pv)), ct \in TracesOver(StoreOf(cv)) :
                tr = [prev |-> pt, cur |-> ct, new |-> <<>>, tracked |-> 0]
    /\ pc = "cid"
    /\ outcome = [cid_store |-> NoCids, trace |-> <<>>]
    /\ ev = CidEv("init", NoJValue, Lorem, NoJValue)
    /\ pre = [ctx |-> ctx, new |-> <<>>, ret |-> NoneRes, depth |-> 0, top |-> Frame(0)]

CidFrame ==
    /\ pre' = [ctx |-> ctx, new |-> tr.new, ret |-> ret, depth |-> 0, top |-> Frame(0)]
    /\ UNCHANGED <<script, stack, ret>>

\* an instruction produced a value (the result of a call, the result of a
\* canon): the value is tracked and a state with its CID is appended
TrackValue ==
    /\ pc = "cid"
    /\ tr.tracked < MaxCidStates
    /\ \E value \in JValues :
          LET tracked == track_value(ctx.cids, value) IN
          /\ ctx' = [ctx EXCEPT !.cids = tracked.cids]
          /\ tr' = [tr EXCEPT !.new = Append(@, CidState(KindOf(value), tracked.cid)),
                              !.tracked = @ + 1]
          /\ ev' = CidEv("track", value, tracked.cid, NoJValue)
    /\ CidFrame
    /\ UNCHANGED <<pc, outcome>>

\* a value is looked up by CID
GetValue ==
    /\ pc = "cid"
    /\ \E cid \in CidSpace :
          ev' = CidEv("get", NoJValue, cid, cid_get(ctx.cids, cid))
    /\ CidFrame
    /\ UNCHANGED <<ctx, tr, pc, outcome>>

\* a state of the previous trace is replayed into the output trace
ReplayPrev ==
    /\ pc = "cid"
    /\ tr.prev # <<>>
    /\ tr' = [tr EXCEPT !.prev = Tail(@), !.new = Append(@, Head(tr.prev))]
    /\ ev' = CidEv("replay_prev", NoJValue, Head(tr.prev).cid, NoJValue)
    /\ CidFrame
    /\ UNCHANGED <<ctx, pc, outcome>>

\* a state of the current trace is replayed into the output trace
ReplayCur ==
    /\ pc = "cid"
    /\ tr.cur # <<>>
    /\ tr' = [tr EXCEPT !.cur = Tail(@), !.new = Append(@, Head(tr.cur))]
    /\ ev' = CidEv("replay_cur", NoJValue, Head(tr.cur).cid, NoJValue)
    /\ CidFrame
    /\ UNCHANGED <<ctx, pc, outcome>>

\* the step ends: the tracker becomes the store returned with the trace
CidFinish ==
    /\ pc = "cid"
    /\ pc' = "done"
    /\ outcome' = [cid_store |-> CidStore_from(ctx.cids), trace |-> tr.new]
    /\ ev' = CidEv("finish", NoJValue, Lorem, NoJValue)
    /\ CidFrame
    /\ UNCHANGED <<ctx, tr>>

CidNext ==
    \/ TrackValue
    \/ GetValue
    \/ ReplayPrev
    \/ ReplayCur
    \/ CidFinish

CidSpec == CidInit /\ [][CidNext]_vars

----------------------------------------------------------------------------
(* The interval length updater of the fold FSM (fold_fsm/size_updater.rs). *)
(* ctx.updater is the IntervalLenUpdater of a fold, tr.prev and tr.cur are *)
(* the sliders; ev tells how update ended: "ok", "error" (an FSM error) or *)
(* "panic".                                                                *)

MaxSeen == 2

\* usize is modelled 16 bits wide: wide enough for a wrapped difference to
\* exceed every length of the model
USIZE_BITS == 16

\* builds: with overflow checks (a debug build) an underflow panics,
\* without them (a release build) it wraps
Builds == {"overflow_checks", "wrapping"}

\* a - b on usize: [panic, value]
usize_sub(a, b, build) ==
    IF b <= a THEN [panic |-> FALSE, value |-> a - b]
    ELSE IF build = "overflow_checks" THEN [panic |-> TRUE, value |-> 0]
    ELSE [panic |-> FALSE, value |-> a - b + 2 ^ USIZE_BITS]

\* TraceSlider::set_interval_len
set_interval_len(s, n) == set_subtrace_len(s, n)

\* IntervalLenUpdater::new
IntervalLenUpdater_new(t) ==
    [prev_states_seen |-> 0, current_states_seen |-> 0,
     prev_interval_len |-> interval_len(t.prev),
     current_interval_len |-> interval_len(t.cur)]

\* IntervalLenUpdater::update: [outcome, tr, wrapped]; the second
\* set_interval_len is made on the previous slider, as the first one
update(self, t, build) ==
    LET new_prev_interval == usize_sub(self.prev_interval_len, self.prev_states_seen, build)
        p1 == set_interval_len(t.prev, new_prev_interval.value)
        t1 == [t EXCEPT !.prev = p1.slider]
        new_current_interval ==
            usize_sub(self.current_interval_len, self.current_states_seen, build)
        p2 == set_interval_len(t1.prev, new_current_interval.value)
        t2 == [t1 EXCEPT !.prev = p2.slider]
        wrapped1 == self.prev_states_seen > self.prev_interval_len
        wrapped2 == self.current_states_seen > self.current_interval_len
    IN
    IF new_prev_interval.panic THEN [outcome |-> "panic", tr |-> t, wrapped |-> FALSE]
    ELSE IF ~p1.ok THEN [outcome |-> "error", tr |-> t, wrapped |-> wrapped1]
    ELSE IF new_current_interval.panic
    THEN [outcome |-> "panic", tr |-> t1, wrapped |-> wrapped1]
    ELSE IF ~p2.ok THEN [outcome |-> "error", tr |-> t1, wrapped |-> wrapped1 \/ wrapped2]
    ELSE [outcome |-> "ok", tr |-> t2, wrapped |-> wrapped1 \/ wrapped2]

\* the sliders of the model: a window of sub states at pos, seen of them read
Sliders ==
    { [Slider(len) EXCEPT !.pos = pos, !.sub = sub, !.seen = seen] :
        len \in 0..MaxTraceLen, pos \in 0..MaxTraceLen, sub \in 0..MaxTraceLen,
        seen \in 0..MaxTraceLen }

WellFormedSlider(s) == s.pos + s.sub <= s.len /\ s.seen <= s.sub

UpdaterEv(op, build, ended, wrapped) ==
    [op |-> op, build |-> build, outcome |-> ended, wrapped |-> wrapped]

\* a fold starts: the updater is made from the sliders
UpdaterInit ==
    /\ script = <<NullI>>
    /\ stack = <<>>
    /\ ret = NoneRes
    /\ \E p \in Sliders, c \in Sliders :
          /\ WellFormedSlider(p) /\ WellFormedSlider(c)
          /\ tr = [prev |-> p, cur |-> c, new |-> <<>>]
    /\ ctx = [updater |-> IntervalLenUpdater_new(tr)]
    /\ pc = "iteration"
    /\ outcome = NoOutcome
    /\ ev = UpdaterEv("new", "", "none", FALSE)
    /\ pre = [ctx |-> ctx, tr |-> tr]

\* the fold FSM counts a state of the previous trace seen in the iteration
SeenPrev ==
    /\ pc = "iteration"
    /\ ctx.updater.prev_states_seen < MaxSeen
    /\ ctx' = [ctx EXCEPT !.updater.prev_states_seen = @ + 1]
    /\ ev' = UpdaterEv("seen_prev", "", "none", FALSE)
    /\ pre' = [ctx |-> ctx, tr |-> tr]
    /\ UNCHANGED <<script, stack, ret, tr, pc, outcome>>

\* the fold FSM counts a state of the current trace seen in the iteration
SeenCurrent ==
    /\ pc = "iteration"
    /\ ctx.updater.current_states_seen < MaxSeen
    /\ ctx' = [ctx EXCEPT !.updater.current_states_seen = @ + 1]
    /\ ev' = UpdaterEv("seen_current", "", "none", FALSE)
    /\ pre' = [ctx |-> ctx, tr |-> tr]
    /\ UNCHANGED <<script, stack, ret, tr, pc, outcome>>

\* the iteration is over: the updater sets the interval lengths
IntervalUpdate ==
    /\ pc = "iteration"
    /\ \E build \in Builds :
          LET u == update(ctx.updater, tr, build) IN
          /\ tr' = u.tr
          /\ ret' = CASE u.outcome = "ok" -> OkRes
                      [] u.outcome = "error" -> TraceError("SliderError")
                      [] OTHER -> NoneRes
          /\ ev' = UpdaterEv("update", build, u.outcome, u.wrapped)
    /\ pc' = "updated"
    /\ pre' = [ctx |-> ctx, tr |-> tr]
    /\ UNCHANGED <<script, stack, ctx, outcome>>

UpdaterNext ==
    \/ SeenPrev
    \/ SeenCurrent
    \/ IntervalUpdate

UpdaterSpec == UpdaterInit /\ [][UpdaterNext]_vars

----------------------------------------------------------------------------
(* The host loop of the test runner (test-utils/src/test_runner.rs): the   *)
(* interpreter is invoked until an outcome asks for no service call.  An   *)
(* invocation is a draw of the outcome it returns.  ctx holds the locals   *)
(* of the loop (prev_data, data, call_results, next_peer_pks), outcome the *)
(* outcome of the last invocation or the one returned, ev.round the number *)
(* of invocations, ev.last the outcome of the last one as the interpreter  *)
(* gave it and ev.pks the next_peer_pks of every invocation so far.        *)

MaxRounds == 3

NoData == ""

\* the outcomes an invocation may give: call_requests maps call ids to call
\* parameters, next_peer_pks is a list that may name a peer twice
OutcomeData == {"d1", "d2"}
OutcomeCallRequests ==
    { <<>>,
      [id \in {1} |-> "p"],
      [id \in {2} |-> "q"],
      [id \in {1, 2} |-> IF id = 1 THEN "p" ELSE "q"],
      [id \in {1, 2} |-> IF id = 1 THEN "q" ELSE "p"] }
OutcomePeerPks == { <<>>, <<"A">>, <<"B">>, <<"A", "A">>, <<"A", "B">> }
RawAVMOutcomes ==
    [data : OutcomeData, call_requests : OutcomeCallRequests,
     next_peer_pks : OutcomePeerPks]

\* HashMap::is_empty
is_empty(map) == DOMAIN map = {}

\* the call service of the test: the result tells the parameters of the call
call_service(call_parameters) == [ret_code |-> 0, result |-> call_parameters]

\* HashSet::extend with the elements of a list
extend(set, list) == set \cup { list[i] : i \in 1..Len(list) }

\* HashSet::into_iter().collect::<Vec<_>>(): the elements, each once, in an
\* order the hash set chooses
into_vec(set) ==
    { list \in [1..Cardinality(set) -> set] :
         \A i, j \in 1..Cardinality(set) : i # j => list[i] # list[j] }

\* a faulty collection of the service results: the map is left empty
collect_call_results_none(call_requests) == <<>>

\* test_runner.rs 103-110: the service is called on every request, the
\* result is stored under the id of the request
collect_call_results(call_requests) ==
    [id \in DOMAIN call_requests |-> call_service(call_requests[id])]

RunnerEv(round, last, pks) == [round |-> round, last |-> last, pks |-> pks]

NoRawOutcome == [data |-> NoData, call_requests |-> <<>>, next_peer_pks |-> <<>>]

RunnerInit ==
    /\ script = <<NullI>>
    /\ stack = <<>>
    /\ ret = NoneRes
    /\ tr = [prev |-> Slider(0), cur |-> Slider(0), new |-> <<>>]
    /\ pc = "loop"
    /\ \E prev_data \in {NoData, "d0"}, data \in {NoData, "c0"} :
          ctx = [prev_data |-> prev_data, data |-> data, call_results |-> <<>>,
                 next_peer_pks |-> {}]
    /\ outcome = NoRawOutcome
    /\ ev = RunnerEv(0, NoRawOutcome, <<>>)
    /\ pre = [ctx |-> ctx]

\* the registers an iteration of the loop leaves alone; pre.ctx holds the
\* arguments of the invocation
RunnerFrame ==
    /\ pre' = [ctx |-> ctx]
    /\ UNCHANGED <<script, stack, tr>>

\* an iteration whose outcome holds call requests: the services are called
\* and the loop goes on
RunnerAgain ==
    /\ pc = "loop"
    /\ ev.round < MaxRounds
    /\ \E out \in RawAVMOutcomes :
          /\ ~is_empty(out.call_requests)
          /\ outcome' = out
          /\ ctx' = [prev_data |-> out.data, data |-> NoData,
                     call_results |-> collect_call_results(out.call_requests),
                     next_peer_pks |-> extend(ctx.next_peer_pks, out.next_peer_pks)]
          /\ ev' = RunnerEv(ev.round + 1, out, Append(ev.pks, out.next_peer_pks))
    /\ ret' = NoneRes
    /\ pc' = "loop"
    /\ RunnerFrame

\* an iteration whose outcome holds no call request: the outcome is
\* returned with the peers collected
RunnerReturn ==
    /\ pc = "loop"
    /\ ev.round < MaxRounds
    /\ \E out \in RawAVMOutcomes :
          /\ is_empty(out.call_requests)
          /\ \E collected \in into_vec(extend(ctx.next_peer_pks, out.next_peer_pks)) :
                outcome' = [out EXCEPT !.next_peer_pks = collected]
          /\ ctx' = [ctx EXCEPT !.next_peer_pks = extend(@, out.next_peer_pks)]
          /\ ev' = RunnerEv(ev.round + 1, out, Append(ev.pks, out.next_peer_pks))
    /\ ret' = OkRes
    /\ pc' = "returned"
    /\ RunnerFrame

\* the runner fails to invoke the interpreter: the error is returned
RunnerFails ==
    /\ pc = "loop"
    /\ ev.round < MaxRounds
    /\ ret' = TraceError("RunnerError")
    /\ pc' = "failed"
    /\ ev' = RunnerEv(ev.round + 1, NoRawOutcome, ev.pks)
    /\ UNCHANGED <<ctx, outcome>>
    /\ RunnerFrame

RunnerNext ==
    \/ RunnerAgain
    \/ RunnerReturn
    \/ RunnerFails

RunnerSpec == RunnerInit /\ [][RunnerNext]_vars

----------------------------------------------------------------------------
(* A peer of the test network with its neighborhood                        *)
(* (testing-framework/src/ephemeral/neiborhood.rs).  ctx is the            *)
(* PeerWithNeighborhood, ev the operation applied last with its argument   *)
(* and, for is_reachable, what it returned; pre.ctx is the peer the        *)
(* operation found.                                                        *)

PeerIds == {"someone", "other", "third"}

\* Neighborghood::new
Neighborghood_new == [neighbors |-> {}, failing |-> {}]

\* Neighborghood::set_neighbors
set_neighbors(self, neighbors) == [self EXCEPT !.neighbors = neighbors]

\* Neighborghood::unfail
unfail(self, target) == [self EXCEPT !.failing = @ \ {target}]

\* a faulty insert: a failing peer stays failing
insert_failing(self, other_peer_id) == [self EXCEPT !.neighbors = @ \cup {other_peer_id}]

\* Neighborghood::insert
insert(self, other_peer_id) ==
    [unfail(self, other_peer_id) EXCEPT !.neighbors = @ \cup {other_peer_id}]

\* Neighborghood::remove
remove(self, other_peer_id) ==
    [unfail(self, other_peer_id) EXCEPT !.neighbors = @ \ {other_peer_id}]

\* Neighborghood::fail
fail(self, target) == [self EXCEPT !.failing = @ \cup {target}]

\* Neighborghood::is_reachable
Neighborghood_is_reachable(self, t) == t \in self.neighbors /\ t \notin self.failing

\* PeerWithNeighborhood::new
PeerWithNeighborhood_new(peer_id) ==
    [peer_id |-> peer_id, failed |-> FALSE, neighborhood |-> Neighborghood_new]

\* PeerWithNeighborhood::is_failed
is_failed(self) == self.failed

\* PeerWithNeighborhood::set_failed
set_failed(self, failed) == [self EXCEPT !.failed = failed]

\* PeerWithNeighborhood::is_reachable
is_reachable(self, t) ==
    IF is_failed(self) THEN FALSE
    ELSE IF self.peer_id = t THEN TRUE
    ELSE Neighborghood_is_reachable(self.neighborhood, t)

NetEv(op, target, returned) == [op |-> op, target |-> target, returned |-> returned]

NetInit ==
    /\ script = <<NullI>>
    /\ stack = <<>>
    /\ ret = NoneRes
    /\ tr = [prev |-> Slider(0), cur |-> Slider(0), new |-> <<>>]
    /\ pc = "network"
    /\ ctx = PeerWithNeighborhood_new("someone")
    /\ outcome = NoOutcome
    /\ ev = NetEv("new", "", FALSE)
    /\ pre = [ctx |-> ctx]

\* an operation on the neighborhood of the peer has given neighborhood n
NetApplied(op, target, n) ==
    /\ ctx' = [ctx EXCEPT !.neighborhood = n]
    /\ ev' = NetEv(op, target, FALSE)
    /\ pre' = [ctx |-> ctx]
    /\ UNCHANGED <<script, stack, ret, tr, pc, outcome>>

NetInsert == \E id \in PeerIds : NetApplied("insert", id, insert(ctx.neighborhood, id))

NetRemove == \E id \in PeerIds : NetApplied("remove", id, remove(ctx.neighborhood, id))

NetFail == \E id \in PeerIds : NetApplied("fail", id, fail(ctx.neighborhood, id))

NetUnfail == \E id \in PeerIds : NetApplied("unfail", id, unfail(ctx.neighborhood, id))

NetSetNeighbors ==
    \E neighbors \in SUBSET PeerIds :
        NetApplied("set_neighbors", "", set_neighbors(ctx.neighborhood, neighbors))

NetSetFailed ==
    /\ \E failed \in BOOLEAN :
          /\ ctx' = set_failed(ctx, failed)
          /\ ev' = NetEv("set_failed", "", failed)
    /\ pre' = [ctx |-> ctx]
    /\ UNCHANGED <<script, stack, ret, tr, pc, outcome>>

NetIsReachable ==
    /\ \E t \in PeerIds : ev' = NetEv("is_reachable", t, is_reachable(ctx, t))
    /\ pre' = [ctx |-> ctx]
    /\ UNCHANGED <<script, stack, ret, ctx, tr, pc, outcome>>

NetNext ==
    \/ NetInsert
    \/ NetRemove
    \/ NetFail
    \/ NetUnfail
    \/ NetSetNeighbors
    \/ NetSetFailed
    \/ NetIsReachable

NetSpec == NetInit /\ [][NetNext]_vars

----------------------------------------------------------------------------
(* Properties.  ev and pre describe the handler that ran last: ev.n is its *)
(* instruction, ev.ph the phase it ran in, ev.prior the merged prior state *)
(* it was given, pre the registers it found.                               *)

EvNode == script[ev.n]

Appended(state) == tr.new = Append(pre.new, state)

\* the output of a call holds value v, produced at trace position pos
OutputHolds(c, node, v, pos) ==
    CASE node.outk = "scalar" ->
            ScalarDefined(c.scalars, node.out) /\ get_value(c.scalars, node.out) = v
      [] node.outk = "stream" ->
            \E g \in 1..Len(c.streams[node.out]) :
                \E i \in 1..Len(c.streams[node.out][g]) :
                    c.streams[node.out][g][i] = StreamValue(v, pos)
      [] OTHER -> TRUE

\* the write of a prior Executed value to the output of a call must fail
WriteFails(c, node, value) ==
    \/ node.outk = "scalar" /\ ScalarDefined(c.scalars, node.out)
    \/ /\ node.outk = "stream"
       /\ c.streams[node.out] # <<>>
       /\ value.gen >= Len(c.streams[node.out])

\* the last handler was a call whose merged prior state is a marker this
\* peer left with a call id
PriorIsMine ==
    /\ ev.kind = "call"
    /\ ev.prior.res = "sent"
    /\ ev.prior.id # 0
    /\ ev.prior.peer = pre.ctx.current_peer_id

NotExecutedAgain ==
    /\ ~ev.should_execute
    /\ ctx.call_requests = pre.ctx.call_requests
    /\ ctx.subgraph_complete = pre.ctx.subgraph_complete
    /\ ctx.next_peer_pks = pre.ctx.next_peer_pks

\* the last handler replayed its prior state
Replayed ==
    \/ ev.kind = "call" /\ ev.prior.res = "failed"
    \/ ev.kind = "call" /\ ev.prior.res = "executed" /\ ret = OkRes
    \/ /\ ev.kind = "call" /\ ev.prior.res = "sent" /\ ~ev.should_execute
       /\ ~(PriorIsMine /\ pre.ctx.call_results[ev.prior.id].present)
    \/ ev.kind \in {"ap", "canon"} /\ ev.prior # NoState /\ ret = OkRes

\* the last handler put a state of this peer's own in the place of the prior
AddedByThisPeer ==
    /\ ev.kind = "call"
    /\ \/ ev.should_execute
       \/ PriorIsMine /\ pre.ctx.call_results[ev.prior.id].present

\* C2: a replayed prior state (an Executed call, a CallServiceFailed call, a
\* marker of a call that is not ready, a recorded ap or canon result) is
\* appended to the output trace as it is; states already in the output trace
\* stay as they are (only the place a par reserved is filled in); and a state
\* that differs from the prior state is one this peer added.
C2_MonotonicTraces ==
    /\ Replayed => Appended(ev.prior)
    /\ Len(pre.new) <= Len(tr.new)
    /\ \A i \in 1..Len(pre.new) :
          \/ tr.new[i] = pre.new[i]
          \/ ev.kind = "par" /\ ev.ph = 2 /\ i = pre.top.fsm.ins /\ pre.new[i] = ParS(0, 0)
    /\ (/\ ev.kind \in {"call", "ap", "canon"}
        /\ ev.prior # NoState
        /\ Len(tr.new) > Len(pre.new)
        /\ tr.new[Len(tr.new)] # ev.prior) => AddedByThisPeer

C2_Witness ==
    /\ ev.kind = "call"
    /\ ev.prior = Sent("Q", 1)
    /\ EvNode.peer = "Q"
    /\ tr.new = <<Executed("a", "scalar", 0), Sent("Q", 1)>>

\* C3, as the specification states it: a call whose prior state is
\* Executed(v) writes v to its output, appends that Executed state and is not
\* executed again.
C3_AsStated ==
    (ev.kind = "call" /\ ev.prior.res = "executed") =>
        /\ Appended(ev.prior)
        /\ OutputHolds(ctx, EvNode, ev.prior.v, Len(pre.new))
        /\ NotExecutedAgain

\* C3: a call whose prior state is Executed(v) is not executed again; when v
\* can be written to the output the call returns Ok, the output holds v and
\* that Executed state is appended; when the write fails the call returns
\* the error of the write, appends nothing and changes nothing.
C3_ExecutedReplayed ==
    (ev.kind = "call" /\ ev.prior.res = "executed") =>
        /\ NotExecutedAgain
        /\ IF WriteFails(pre.ctx, EvNode, ev.prior)
           THEN /\ IsErr(ret)
                /\ ret.kind \in {"MultipleVariablesFound", "StreamDontHaveSuchGeneration"}
                /\ tr.new = pre.new
                /\ ctx = pre.ctx
           ELSE /\ ret = OkRes
                /\ Appended(ev.prior)
                /\ OutputHolds(ctx, EvNode, ev.prior.v, Len(pre.new))

C3_Witness ==
    /\ ev.kind = "call"
    /\ ev.prior = Executed("a", "stream", 0)
    /\ ret = OkRes
    /\ tr.new = <<Executed("a", "stream", 0)>>
    /\ ctx.streams["s"] = << <<StreamValue("a", 0)>> >>

\* C4, as the specification states it: with a prior marker of this peer, an
\* entry of call_results is removed and a Call(Executed) state is appended;
\* without an entry the marker is kept, the call is not executed and
\* subgraph_complete is false.
C4_AsStated ==
    PriorIsMine =>
        IF pre.ctx.call_results[ev.prior.id].present
        THEN /\ ~ctx.call_results[ev.prior.id].present
             /\ Len(tr.new) = Len(pre.new) + 1
             /\ tr.new[Len(tr.new)].res = "executed"
        ELSE /\ Appended(ev.prior)
             /\ ~ev.should_execute
             /\ ~ctx.subgraph_complete

\* C4: with a prior marker of this peer, an entry of call_results for the
\* call id is removed (the other entries stay) and no request is issued; a
\* Call(Executed) state with the parsed value is appended exactly when the
\* result has ret_code 0, parses as JSON and can be written to the output,
\* otherwise the call returns an error and appends a CallServiceFailed state
\* or nothing.  Without an entry the marker is kept unchanged, the call is
\* not executed, returns Ok and subgraph_complete is false.
C4_ServiceResultConsumed ==
    PriorIsMine =>
        LET id == ev.prior.id
            sr == pre.ctx.call_results[id]
            usable == /\ sr.ret_code = CALL_SERVICE_SUCCESS
                      /\ sr.result \in {"\"a\"", "\"b\""}
                      /\ ~(EvNode.outk = "scalar" /\ ScalarDefined(pre.ctx.scalars, EvNode.out))
        IN
        /\ ~ev.should_execute
        /\ ctx.call_requests = pre.ctx.call_requests
        /\ IF sr.present
           THEN /\ ctx.call_results = [pre.ctx.call_results EXCEPT ![id] = NoServiceResult]
                /\ IF usable
                   THEN /\ ret = OkRes
                        /\ Len(tr.new) = Len(pre.new) + 1
                        /\ tr.new[Len(tr.new)].res = "executed"
                        /\ OutputHolds(ctx, EvNode, tr.new[Len(tr.new)].v, Len(pre.new))
                   ELSE /\ IsErr(ret)
                        /\ \/ tr.new = pre.new
                           \/ /\ Len(tr.new) = Len(pre.new) + 1
                              /\ tr.new[Len(tr.new)].res = "failed"
           ELSE /\ ret = OkRes
                /\ Appended(ev.prior)
                /\ ctx = [pre.ctx EXCEPT !.subgraph_complete = FALSE]

C4_Witness ==
    /\ PriorIsMine
    /\ pre.ctx.call_results[1] = ServiceResult(0, "\"a\"")
    /\ ~ctx.call_results[1].present
    /\ tr.new = <<Executed("a", "scalar", 0)>>
    /\ ctx.subgraph_complete

\* C5: a call whose prior state is CallServiceFailed(code, msg) appends that
\* same state, raises the catchable LocalServiceError(code, msg), issues no
\* call request and writes no variable.
C5_FailedReplayed ==
    (ev.kind = "call" /\ ev.prior.res = "failed") =>
        /\ Appended(ev.prior)
        /\ ret = LocalServiceError(ev.prior.code, ev.prior.msg)
        /\ ret.catchable
        /\ ~ev.should_execute
        /\ ctx.call_requests = pre.ctx.call_requests
        /\ ctx.scalars = pre.ctx.scalars
        /\ ctx.streams = pre.ctx.streams

C5_Witness ==
    /\ ev.kind = "call"
    /\ ev.prior = Failed(1, "boom")
    /\ tr.new = <<Failed(1, "boom")>>
    /\ ret.kind = "LocalServiceError"

\* C6: a service result taken from call_results becomes a value only if its
\* ret_code is 0 and its result parses as JSON; otherwise exactly one
\* CallServiceFailed state is appended (the service's code and message for
\* a non-zero ret_code, i32::MAX and a parse message for a result that does
\* not parse), the catchable LocalServiceError with the same code is raised
\* and the output variable is not written.
C6_ServiceResultToValue ==
    (PriorIsMine /\ pre.ctx.call_results[ev.prior.id].present) =>
        LET sr == pre.ctx.call_results[ev.prior.id]
            last == tr.new[Len(tr.new)]
        IN
        /\ ret = OkRes => sr.ret_code = 0 /\ sr.result \in {"\"a\"", "\"b\""}
        /\ (ctx.scalars # pre.ctx.scalars \/ ctx.streams # pre.ctx.streams) =>
               sr.ret_code = 0 /\ sr.result \in {"\"a\"", "\"b\""}
        /\ sr.ret_code # 0 =>
               /\ Appended(Failed(sr.ret_code, sr.result))
               /\ ret = LocalServiceError(sr.ret_code, sr.result)
        /\ (sr.ret_code = 0 /\ sr.result \notin {"\"a\"", "\"b\""}) =>
               /\ Len(tr.new) = Len(pre.new) + 1
               /\ SubSeq(tr.new, 1, Len(pre.new)) = pre.new
               /\ last.res = "failed" /\ last.code = 2147483647
               /\ last.msg \notin {"", sr.result}
               /\ ret = LocalServiceError(2147483647, last.msg)
        /\ IsErr(ret) /\ ret.kind = "LocalServiceError" => ret.catchable

C6_Witness ==
    /\ PriorIsMine
    /\ pre.ctx.call_results[1] = ServiceResult(0, "a")
    /\ Len(tr.new) = 1
    /\ tr.new[1].res = "failed"
    /\ tr.new[1].code = 2147483647
    /\ ret.catchable

\* C7: a call with no prior state whose target is another peer adds the
\* target to next_peer_pks, sets subgraph_complete to false and appends
\* exactly one RequestSentBy marker naming the current peer; it issues no
\* call request and writes no variable.
C7_RemoteCall ==
    (/\ ev.kind = "call" /\ ev.ps = NoState /\ ev.cs = NoState
     /\ EvNode.peer # pre.ctx.current_peer_id) =>
        /\ ret = OkRes
        /\ ctx = [pre.ctx EXCEPT !.next_peer_pks = Append(@, EvNode.peer),
                                 !.subgraph_complete = FALSE]
        /\ Appended(Sent(pre.ctx.current_peer_id, 0))

C7_Witness ==
    /\ ev.kind = "call" /\ ev.ps = NoState /\ ev.cs = NoState
    /\ EvNode.peer = "Q"
    /\ ctx.next_peer_pks = <<"Q">>
    /\ tr.new = <<Sent("P", 0)>>
    /\ ~ctx.subgraph_complete

\* the handler that ran last has called execute() of instruction n
Runs(n) == Len(stack) = pre.depth + 1 /\ Top.n = n /\ Top.ph = 0 /\ ret = NoneRes

\* the instruction that ran last has returned r to its caller
Returned(r) == Len(stack) = pre.depth - 1 /\ ret = r

\* C8: seq(a, b) sets subgraph_complete to true and runs a; b is run if and
\* only if a returned Ok and subgraph_complete is still true; when a leaves
\* subgraph_complete false seq returns Ok without running b, when a returns
\* an error seq returns that error without running b.
C8_Seq ==
    /\ (ev.kind = "seq" /\ ev.ph = 0) =>
          /\ ctx = [pre.ctx EXCEPT !.subgraph_complete = TRUE]
          /\ Runs(EvNode.l)
    /\ (ev.kind = "seq" /\ ev.ph = 1) =>
          /\ Runs(EvNode.r) <=> (pre.ret = OkRes /\ pre.ctx.subgraph_complete)
          /\ (pre.ret = OkRes /\ ~pre.ctx.subgraph_complete) => Returned(OkRes)
          /\ IsErr(pre.ret) => Returned(pre.ret)
          /\ ctx = pre.ctx /\ tr.new = pre.new
    /\ \A i \in 2..Len(stack) :
          (script[stack[i - 1].n].op = "seq" /\ stack[i].n = script[stack[i - 1].n].r)
              => stack[i - 1].ph = 2

C8_Witness ==
    /\ ev.kind = "seq" /\ ev.ph = 1
    /\ pre.ret = OkRes
    /\ ~pre.ctx.subgraph_complete
    /\ Returned(OkRes)
    /\ tr.new = <<Sent("P", 0)>>

\* the error kinds that the left branch of an xor raises, as is_catchable and
\* the error wrappers of the code classify them
CatchableKinds ==
    {"LocalServiceError", "VariableNotFound", "MatchWithoutXorError",
     "ApResultNotCorrespondToInstr"}
UncatchableKinds == {"TraceError", "MultipleVariablesFound"}

\* C9: when a raises a catchable error E, xor(a, b) runs b with
\* %last_error% equal to E (a call argument %last_error% in b reads E's
\* message) and returns what b returns; when a raises an uncatchable error
\* xor returns it and b is not run; when a succeeds b is not run.
C9_XorAbsorption ==
    /\ (ev.kind = "xor" /\ ev.ph = 1 /\ pre.ret.kind \in CatchableKinds) =>
          /\ Runs(EvNode.r)
          /\ ctx = [pre.ctx EXCEPT !.last_error = pre.ret]
    /\ (ev.kind = "xor" /\ ev.ph = 1 /\ pre.ret.kind \in UncatchableKinds) =>
          /\ Returned(pre.ret)
          /\ ctx = pre.ctx
    /\ (ev.kind = "xor" /\ ev.ph = 1 /\ pre.ret = OkRes) =>
          /\ Returned(OkRes)
          /\ ctx = pre.ctx
    /\ (ev.kind = "xor" /\ ev.ph = 2) => Returned(pre.ret)
    /\ (/\ ev.kind = "call" /\ EvNode.arg = "%last_error%"
        /\ Len(ctx.call_requests) > Len(pre.ctx.call_requests)) =>
          ctx.call_requests[Len(ctx.call_requests)].arg = pre.ctx.last_error.msg
    /\ \A i \in 2..Len(stack) :
          (script[stack[i - 1].n].op = "xor" /\ stack[i].n = script[stack[i - 1].n].r)
              => /\ stack[i - 1].ph = 2
                 /\ stack[i - 1].lres.kind \in CatchableKinds

C9_Witness ==
    /\ ev.finished
    /\ script[1].op = "xor"
    /\ ctx.last_error.kind = "MatchWithoutXorError"
    /\ outcome.ret_code = 0
    /\ Len(outcome.call_requests) = 1
    /\ outcome.call_requests[1].arg = "match is used without corresponding xor"

\* the left branch of the par that ran last ended not ready or waiting
LeftPending ==
    \/ pre.top.lres = OkRes /\ ~pre.top.lcomplete
    \/ pre.top.lres.kind = "VariableNotFound"

\* C10: in par(a, b), when a ends not ready or with a joinable error and b
\* succeeds, par returns Ok (the step of a root par ends with ret_code 0
\* and an empty message), the states of both branches stay in the output
\* trace, the states of a call a are only pending markers (a par a that is
\* not ready also keeps the states of its own branches), and the place
\* reserved when
\* the par started holds Par(l, r) with l and r the numbers of states the
\* left and the right branch appended.
C10_ParIndependence ==
    /\ (ev.kind = "par" /\ ev.ph = 1 /\ Len(stack) > pre.depth) =>
          stack[pre.depth].fsm.left_size = Len(pre.new) - pre.top.fsm.ins
    /\ (ev.kind = "par" /\ ev.ph = 2 /\ LeftPending /\ pre.ret = OkRes) =>
          LET ins == pre.top.fsm.ins
              l == pre.top.fsm.left_size
              r == Len(pre.new) - ins - l
          IN
          /\ Returned(OkRes)
          /\ Len(tr.new) = Len(pre.new)
          /\ tr.new[ins] = ParS(l, r)
          /\ \A i \in 1..Len(tr.new) : i # ins => tr.new[i] = pre.new[i]
          /\ script[EvNode.l].op = "call" =>
                \A i \in (ins + 1)..(ins + l) : tr.new[i].res = "sent"
          /\ ctx = pre.ctx
          /\ (ev.finished /\ ev.n = 1) =>
                /\ outcome.ret_code = 0
                /\ outcome.error_message = ""
                /\ outcome.trace = tr.new
                /\ outcome.trace[1] = ParS(l, Len(outcome.trace) - 1 - l)
                /\ outcome.next_peer_pks = ctx.next_peer_pks

C10_Witness ==
    /\ ev.finished
    /\ ev.kind = "par" /\ ev.n = 1
    /\ LeftPending
    /\ outcome.ret_code = 0
    /\ outcome.trace = <<ParS(1, 1), Sent("P", 0), Executed("a", "scalar", 0)>>
    /\ outcome.next_peer_pks = <<"Q">>

\* the xor instructions whose left branch is a match
XorOverMatch ==
    { x \in 1..Len(script) : script[x].op = "xor" /\ script[script[x].l].op = "match" }

\* execute() of instruction n was called and has returned
Completed(n) == n \in ev.ran /\ \A i \in 1..Len(stack) : stack[i].n # n

\* an operand of a match has a value in context c
OperandResolves(c, kind, x) ==
    kind = "scalar" => c.scalars.local_values[x] # <<>>

\* the value of an operand that resolves
OperandValue(c, kind, x) ==
    CASE kind = "lit" -> x
      [] kind = "init_peer_id" -> c.init_peer_id
      [] OTHER -> c.scalars.local_values[x][Len(c.scalars.local_values[x])].value

\* the operands of match instruction m resolve and are equal / differ in c
OperandsEqual(c, m) ==
    /\ OperandResolves(c, m.xk, m.x) /\ OperandResolves(c, m.yk, m.y)
    /\ OperandValue(c, m.xk, m.x) = OperandValue(c, m.yk, m.y)

OperandsDiffer(c, m) ==
    /\ OperandResolves(c, m.xk, m.x) /\ OperandResolves(c, m.yk, m.y)
    /\ OperandValue(c, m.xk, m.x) # OperandValue(c, m.yk, m.y)

C11_DifferCase ==
    /\ ev.finished /\ Len(script) = 6 /\ script[3].op = "xor" /\ 4 \in ev.ne /\ 5 \in ev.ran /\ 6 \notin ev.ran

C11_InitPeerCase ==
    /\ ev.finished /\ Len(script) = 4 /\ script[2].xk = "init_peer_id" /\ 2 \in ev.eq /\ 4 \in ev.ran /\ 3 \notin ev.ran

\* instruction n is instruction a or is inside one of a's branches
RECURSIVE Inside(_, _)
Inside(a, n) ==
    \/ a = n
    \/ /\ script[a].op \in {"seq", "par", "xor"}
       /\ Inside(script[a].l, n) \/ Inside(script[a].r, n)
    \/ script[a].op = "match" /\ Inside(script[a].l, n)

\* no instruction `op` encloses instruction n
NoEnclosing(op, n) ==
    \A a \in 1..Len(script) : (a # n /\ script[a].op = op) => ~Inside(a, n)

\* the root has returned in the second run, the outcome is still that of
\* the first run
SecondRunEnds == ev.run = 2 /\ pc = "running" /\ stack = <<>>

KindsDiffer ==
    /\ ev.kind \in {"call", "par", "ap", "canon"}
    /\ ev.ph = 0
    /\ ev.ps # NoState /\ ev.cs # NoState
    /\ ev.ps.t # ev.cs.t

NoVariableWritten ==
    /\ ctx.scalars = pre.ctx.scalars
    /\ ctx.streams = pre.ctx.streams
    /\ ctx.canons = pre.ctx.canons

\* C13: when the previous and the current trace hold states of different
\* kinds at the position an instruction consumes, the merge fails with the
\* uncatchable IncompatibleExecutedStates error and the instruction writes
\* no variable.
C13_IncompatibleStates ==
    KindsDiffer =>
        /\ ret = TraceError("IncompatibleExecutedStates")
        /\ ~ret.catchable
        /\ NoVariableWritten
        /\ tr.new = pre.new

\* the case of C13 the ap merger lets through: a previous Ap state merged
\* with a current call state
C13_ApOverCall ==
    /\ KindsDiffer
    /\ ev.kind = "ap" /\ ev.ps = ApS(<<0>>) /\ ev.cs = Sent("Q", 0)
    /\ ret = OkRes
    /\ ctx.streams["s"] # pre.ctx.streams["s"]

\* C13 holds of every merge but the one of a previous Ap state at an ap
\* instruction
C13_ExceptPrevAp ==
    (KindsDiffer /\ ~(ev.kind = "ap" /\ ev.ps.t = "ap")) =>
        /\ ret = TraceError("IncompatibleExecutedStates")
        /\ ~ret.catchable
        /\ NoVariableWritten
        /\ tr.new = pre.new

\* the last step merged two call results
BothCallResults == ev.kind = "merge_call" /\ ev.ps.t = "call" /\ ev.cs.t = "call"

\* two Executed values agree: scalars that are equal, or stream values
\* with equal content (their generations may differ)
ValuesAgree(p, c) ==
    \/ p.vt = "scalar" /\ c.vt = "scalar" /\ p.v = c.v
    \/ p.vt = "stream" /\ c.vt = "stream" /\ p.v = c.v

ApMerged == ev.kind = "merge_ap"

\* C15, as the specification states it: two Ap states at one position merge
\* only if their res_generations are equal; an Ap state on one side only
\* merges.
C15_AsStated ==
    ApMerged =>
        /\ (ev.ps.t = "ap" /\ ev.cs.t = "ap") =>
              (ret = OkRes <=> ev.ps.gens = ev.cs.gens)
        /\ (ev.ps.t = "ap" /\ ev.cs = NoState) => ret = OkRes
        /\ (ev.ps = NoState /\ ev.cs.t = "ap") => ret = OkRes

\* C15: when the previous trace holds an Ap state and the current trace
\* holds an Ap state or nothing, the merge succeeds if and only if the
\* previous state has at most one generation, and gives that generation;
\* the generations of the current state are not compared.  When only the
\* current trace holds an Ap state the merge succeeds with an empty result.
C15_ApMerge ==
    ApMerged =>
        /\ (ev.ps.t = "ap" /\ (ev.cs.t = "ap" \/ ev.cs = NoState)) =>
              /\ ret = OkRes <=> Len(ev.ps.gens) <= 1
              /\ ret = OkRes => ev.prior = ev.ps
              /\ ret # OkRes => ret = TraceError("IncorrectApResult")
        /\ (ev.ps = NoState /\ ev.cs.t = "ap") =>
              ret = OkRes /\ ev.prior = NoState

C15_Witness ==
    /\ ApMerged
    /\ ev.ps = ApS(<<0>>) /\ ev.cs = ApS(<<1>>)
    /\ ret = OkRes
    /\ ev.prior = ApS(<<0>>)

----------------------------------------------------------------------------
(* The shape of the trace a par leaves                                      *)

\* the number of states of the subtree whose root is at position i
SubtreeLen(trace, i) ==
    IF trace[i].t = "par" THEN 1 + trace[i].l + trace[i].r ELSE 1

\* the states at from..to are a sequence of whole subtrees, and so are the
\* two windows of every Par state among them
RECURSIVE WholeSubtrees(_, _, _)
WholeSubtrees(trace, from, to) ==
    IF from > to THEN from = to + 1
    ELSE /\ from + SubtreeLen(trace, from) - 1 <= to
         /\ trace[from].t = "par" =>
               /\ WholeSubtrees(trace, from + 1, from + trace[from].l)
               /\ WholeSubtrees(trace, from + trace[from].l + 1,
                                from + trace[from].l + trace[from].r)
         /\ WholeSubtrees(trace, from + SubtreeLen(trace, from), to)

\* the frame of the par whose branch has just been entered
ParFrame == stack[Len(stack) - 1]

ParCompleted == ev.kind = "par" /\ ev.case \in {"right_done", "both_failed"}

----------------------------------------------------------------------------
(* ap and the result recorded for it                                        *)

\* the merger handed ap a recorded result (MergerApResult::ApResult)
ApRecorded == ev.kind = "ap" /\ ev.case # "merge_error" /\ ev.prior # NoState

\* the recorded result fits the instruction: a generation for a stream
\* destination, none for a scalar destination
ApCorresponds == (EvNode.outk = "stream") <=> (Len(ev.prior.gens) = 1)

\* C17: ap accepts a recorded result only if it corresponds to the
\* instruction (a stream operand has a recorded generation, a scalar operand
\* has none); a result that does not correspond makes ap fail with
\* ApResultNotCorrespondToInstr with no scalar, stream or trace state
\* written; an empty merger result always corresponds
C17_ApCorrespondence ==
    /\ ApRecorded =>
          /\ ev.case = "not_correspond" <=> ~ApCorresponds
          /\ ev.case = "replay" => ApCorresponds
          /\ ~ApCorresponds =>
                /\ ret.kind = "ApResultNotCorrespondToInstr"
                /\ ctx = pre.ctx
                /\ tr.new = pre.new
    /\ (ev.kind = "ap" /\ ev.case # "merge_error" /\ ev.prior = NoState) =>
          ev.case # "not_correspond" /\ ret.kind # "ApResultNotCorrespondToInstr"

\* an ap into a scalar met a recorded result with a generation
C17_Witness ==
    /\ ApRecorded
    /\ EvNode.outk = "scalar"
    /\ ev.prior = ApS(<<0>>)
    /\ ev.case = "not_correspond"

\* an ap into a stream met a recorded result with no generation
C17_StreamCase ==
    /\ ApRecorded
    /\ EvNode.outk = "stream"
    /\ ev.prior = ApS(<<>>)
    /\ ev.case = "not_correspond"

----------------------------------------------------------------------------
(* The errors that abort a step                                             *)

\* the errors that the taxonomy of errors lists as uncatchable
UncatchableByTaxonomy ==
    {"TraceError", "ApResultNotCorrespondToInstr", "StreamDontHaveSuchGeneration",
     "MultipleVariablesFound", "FoldStateNotFound"}

\* C18: a trace error, ApResultNotCorrespondToInstr,
\* StreamDontHaveSuchGeneration, MultipleVariablesFound at global scope and
\* FoldStateNotFound are uncatchable: is_catchable is false for each, an
\* enclosing xor never runs its right branch for one of them, and the step
\* that raised one ends with its error code
C18_Uncatchable ==
    /\ (IsErr(ret) /\ ret.kind \in UncatchableByTaxonomy) => ~ret.catchable
    /\ (ev.kind = "xor" /\ ev.case = "catch") => pre.ret.kind \notin UncatchableByTaxonomy
    /\ \A i \in 1..Len(stack) :
          (script[stack[i].n].op = "xor" /\ stack[i].ph = 2) =>
              stack[i].lres.kind \notin UncatchableByTaxonomy

\* an xor ran its right branch after ApResultNotCorrespondToInstr, and the
\* step ended with ret_code 0
C18_ApErrorCaught ==
    /\ pc = "done"
    /\ script[1].op = "xor" /\ script[2].op = "ap"
    /\ ctx.last_error.kind = "ApResultNotCorrespondToInstr"
    /\ 3 \in ev.ran
    /\ outcome.ret_code = 0

\* what the code does classify as uncatchable: trace errors, by
\* is_catchable, and the errors built as UncatchableError
C18_CodeUncatchable ==
    (IsErr(ret) /\ ret.kind \in {"TraceError", "MultipleVariablesFound"}) => ~ret.catchable

----------------------------------------------------------------------------
(* Joinable errors                                                          *)

JoinableKinds == {"VariableNotFound", "StreamJsonPathError", "EmptyStreamJsonPathError"}

\* C19: every joinable error is catchable, and the joinable errors are
\* exactly the variable-not-found error, the stream path error and the
\* empty-stream path error
C19_Joinable ==
    pc = "raised" =>
        /\ ret.joinable => ret.catchable
        /\ ret.joinable <=> ret.kind \in JoinableKinds

\* a stream path error was raised: it is joinable and catchable
C19_Witness ==
    /\ pc = "raised"
    /\ ret.kind = "StreamJsonPathError"
    /\ ret.joinable
    /\ ret.catchable

----------------------------------------------------------------------------
(* The end of a step on an uncatchable error                                *)

Uncatchable(r) == IsErr(r) /\ ~r.catchable

\* the handler that ran last is that of an instruction whose child had
\* returned an uncatchable error
UncatchableInHand ==
    /\ ev.kind \in {"seq", "xor", "par", "match"}
    /\ Uncatchable(pre.ret)

\* C20: an uncatchable error stops the step at the instruction that raised
\* it: every enclosing instruction returns the error at once, calls no
\* other instruction and leaves the context and the trace as they were; the
\* outcome carries the trace produced up to the error, a non-zero ret_code
\* and the message of the error; and an instruction that is handed an
\* error, catchable or not, keeps every state that is in the new trace (a
\* par writes only the Par state at the position it reserved)
C20_UncatchableStops ==
    /\ UncatchableInHand =>
          /\ ret = pre.ret
          /\ Len(stack) = pre.depth - 1
          /\ tr.new = pre.new
          /\ ctx = pre.ctx
    /\ (pc = "running" /\ Uncatchable(ret)) => stack = <<>> \/ Top.ph > 0
    /\ (pc = "done" /\ Uncatchable(ret)) =>
          /\ outcome.ret_code # 0
          /\ outcome.ret_code = to_error_code(ret)
          /\ outcome.error_message = ret.msg
          /\ outcome.error_message # ""
          /\ outcome.trace = tr.new
    /\ (ev.kind \in {"seq", "xor", "par", "match"} /\ IsErr(pre.ret)) =>
          /\ Len(tr.new) = Len(pre.new)
          /\ \A i \in 1..Len(pre.new) :
                tr.new[i] = pre.new[i] \/ (ev.kind = "par" /\ i = pre.top.fsm.ins)
    /\ (pc = "done" /\ outcome.ret_code # 0) => outcome.trace = tr.new

\* a step ended on an uncatchable error with states in its trace and an
\* instruction that never ran
C20_Witness ==
    /\ pc = "done"
    /\ Uncatchable(ret)
    /\ outcome.ret_code = 21
    /\ Len(outcome.trace) >= 2
    /\ \E n \in 1..Len(script) : n \notin ev.ran

----------------------------------------------------------------------------
(* Scalars and scopes                                                       *)

\* set_value has just been applied at the given depths
SetValueAt(depths) ==
    /\ ev.op = "set_value"
    /\ pre.ctx.scalars.fold_block_id \in depths

\* the cells the name had and has
CellsBefore(name) == pre.ctx.scalars.local_values[name]
CellsAfter(name) == ctx.scalars.local_values[name]

\* set_value changed nothing but the cells of the name it was given
OnlyNameChanged ==
    /\ \A n \in Names \ {ev.name} : CellsAfter(n) = CellsBefore(n)
    /\ ctx.scalars.fold_block_id = pre.ctx.scalars.fold_block_id
    /\ ctx.scalars.iterable_values = pre.ctx.scalars.iterable_values

\* C21: at global scope (depth 0) setting a scalar name that is already
\* defined fails with MultipleVariablesFound and leaves the existing value
\* and every other variable unchanged; setting a name that is not yet
\* defined succeeds and returns false
C21_SetValueGlobal ==
    SetValueAt({0}) =>
        IF CellsBefore(ev.name) # <<>>
        THEN /\ ret.kind = "MultipleVariablesFound"
             /\ ctx = pre.ctx
        ELSE /\ ret = OkRes
             /\ ev.returned = FALSE
             /\ CellsAfter(ev.name) = <<SparseCell(0, ev.value)>>
             /\ OnlyNameChanged

\* a defined name was set again at global scope
C21_Witness ==
    /\ SetValueAt({0})
    /\ CellsBefore(ev.name) = <<SparseCell(0, "a")>>
    /\ ev.value = "b"
    /\ ret.kind = "MultipleVariablesFound"

\* C22: inside a fold (depth > 0) set_value never fails: if the deepest cell
\* of the name was set at the current depth, the value of that cell is
\* overwritten and true is returned; otherwise a new cell at the current
\* depth is added above the existing ones, which keep their values, and
\* false is returned
C22_SetValueInFold ==
    SetValueAt(1..(MaxFoldDepth + 1)) =>
        LET cells == CellsBefore(ev.name)
            depth == pre.ctx.scalars.fold_block_id
        IN  /\ ret = OkRes
            /\ OnlyNameChanged
            /\ IF cells # <<>> /\ cells[Len(cells)].position = depth
               THEN /\ ev.returned = TRUE
                    /\ CellsAfter(ev.name) = [cells EXCEPT ![Len(cells)].value = ev.value]
               ELSE /\ ev.returned = FALSE
                    /\ CellsAfter(ev.name) = Append(cells, SparseCell(depth, ev.value))

\* a name set at global scope was shadowed in a fold, then set again there
C22_Witness ==
    /\ SetValueAt({1})
    /\ CellsBefore(ev.name) = <<SparseCell(0, "a"), SparseCell(1, "a")>>
    /\ CellsAfter(ev.name) = <<SparseCell(0, "a"), SparseCell(1, "b")>>
    /\ ev.returned = TRUE

\* the cells of a sequence set at a depth up to d
CellsUpTo(cells, d) ==
    LET Keep(cell) == cell.position <= d IN SelectSeq(cells, Keep)

\* C23: meet_scope_end removes exactly the cells whose depth is greater than
\* the new (decremented) depth: every cell set at a depth less than or
\* equal to the new depth is still present with its value afterwards, also
\* when the scope that ended never set that name, and a name left with no
\* cells is no longer defined (stated for the folds of a step that no
\* uncatchable error has ended)
C23_ScopeEnd ==
    (ev.op = "fold_end" /\ pc = "scalars") =>
        /\ ctx.scalars.fold_block_id = pre.ctx.scalars.fold_block_id - 1
        /\ \A n \in Names :
              /\ CellsAfter(n) = CellsUpTo(CellsBefore(n), ctx.scalars.fold_block_id)
              /\ CellsAfter(n) = <<>> => get(ctx.scalars, n) # "value"

\* a fold nested in another ended without having set x, and the cell that
\* the outer fold had set for x is gone
C23_LostCell ==
    /\ ev.op = "fold_end"
    /\ pc = "scalars"
    /\ ctx.scalars.fold_block_id = 1
    /\ CellsBefore("x") = <<SparseCell(1, "a")>>
    /\ CellsAfter("x") = <<>>

\* what meet_scope_end does: of every name only the last cell can go, and it
\* goes when it was set at a depth that is not 0 and not below the new
\* depth
C23_CodeScopeEnd ==
    ev.op = "fold_end" =>
        \A n \in Names :
            LET cells == CellsBefore(n) IN
            IF cells # <<>> /\ cells[Len(cells)].position # 0
                            /\ cells[Len(cells)].position >= ctx.scalars.fold_block_id
            THEN CellsAfter(n) = SubSeq(cells, 1, Len(cells) - 1)
            ELSE CellsAfter(n) = cells

C24_BothBound ==
    /\ ev.op = "get"
    /\ ev.name = "y"
    /\ Len(stack) = 1 /\ stack[1].iterator = "y"
    /\ ScalarDefined(ctx.scalars, "y")
    /\ ev.value = "unreachable"

\* what set_value and set_iterable_value do keep: get fails only for a name
\* bound neither way, and then with the catchable VariableNotFound
C24_CodeGet ==
    ev.op = "get" =>
        /\ ev.value = "VariableNotFound" <=>
              (~ScalarDefined(ctx.scalars, ev.name) /\ ev.name \notin ctx.scalars.iterable_values)
        /\ ev.value = "VariableNotFound" => (ret.kind = "VariableNotFound" /\ ret.catchable)
        /\ ev.value = "unreachable" <=>
              (ScalarDefined(ctx.scalars, ev.name) /\ ev.name \in ctx.scalars.iterable_values)

\* C25: a fold opens a scope and binds its iterator before it runs the body,
\* and on every exit path (the body returned Ok, the body returned an
\* error, the iterator could not be bound because the name is already bound
\* as an iterable, which is an uncatchable error) the scope depth is back
\* to its value before the fold and the binding made by this fold is
\* removed; the scope depth never goes below 0
C25_FoldScope ==
    /\ ctx.scalars.fold_block_id >= 0
    /\ (ev.op = "fold_start" /\ ev.returned) =>
          /\ ctx.scalars.fold_block_id = pre.ctx.scalars.fold_block_id + 1
          /\ ev.name \in ctx.scalars.iterable_values
          /\ stack[Len(stack)] = FoldFrame(ev.name, pre.ctx.scalars.fold_block_id)
    /\ (ev.op = "fold_start" /\ ~ev.returned) =>
          /\ ret.kind = "MultipleIterableValues" /\ ~ret.catchable
          /\ ctx.scalars.fold_block_id = pre.ctx.scalars.fold_block_id
          /\ ctx.scalars.iterable_values = pre.ctx.scalars.iterable_values
    /\ ev.op = "fold_end" =>
          /\ ctx.scalars.fold_block_id = ev.value
          /\ ev.name \notin ctx.scalars.iterable_values

\* a fold nested in a fold with the same iterator failed to bind it and
\* returned with its scope still open
C25_ScopeLeftOpen ==
    /\ ev.op = "fold_start" /\ ~ev.returned
    /\ Len(stack) = 1 /\ stack[1] = FoldFrame(ev.name, 0)
    /\ ret.kind = "MultipleIterableValues"
    /\ ctx.scalars.fold_block_id = 2

\* what fold does: the depth never goes below 0, the scope is opened and
\* the iterator bound before the body, a fold whose body returned Ok or a
\* catchable error leaves the depth as it found it and its iterator
\* unbound, and a fold that fails to bind leaves the depth one above
C25_CodeFoldScope ==
    /\ ctx.scalars.fold_block_id >= 0
    /\ (ev.op = "fold_start" /\ ev.returned) =>
          /\ ctx.scalars.fold_block_id = pre.ctx.scalars.fold_block_id + 1
          /\ ev.name \in ctx.scalars.iterable_values
    /\ (ev.op = "fold_start" /\ ~ev.returned) =>
          /\ ret.kind = "MultipleIterableValues" /\ ~ret.catchable
          /\ ctx.scalars.fold_block_id = pre.ctx.scalars.fold_block_id + 1
          /\ ctx.scalars.iterable_values = pre.ctx.scalars.iterable_values
    /\ (ev.op = "fold_end" /\ pc = "scalars") =>
          /\ ctx.scalars.fold_block_id = ev.value
          /\ ev.name \notin ctx.scalars.iterable_values

\* the stream a canon instruction reads, flattened, before it ran
CanonSource == Flatten(pre.ctx.streams[EvNode.x])

\* a recorded position resolves when a value of the stream was recorded at it
Resolves(position) == \E k \in 1..Len(CanonSource) : CanonSource[k].trace_pos = position

\* the values the recorded positions stand for
RecordedValues(positions) ==
    [i \in 1..Len(positions) |->
        CanonSource[CHOOSE k \in 1..Len(CanonSource) :
                        /\ CanonSource[k].trace_pos = positions[i]
                        /\ \A j \in 1..(k - 1) : CanonSource[j].trace_pos # positions[i]].value]

\* the canon instruction bound nothing and appended nothing
CanonLeftNothing ==
    /\ ctx.canons = pre.ctx.canons
    /\ tr.new = pre.new
    /\ ctx.next_peer_pks = pre.ctx.next_peer_pks

\* a prior canon result was replayed: the canon stream holds the recorded
\* values, and the state appended is the recorded one
CanonReplayed ==
    /\ ret = OkRes
    /\ ctx.canons = add_canon(pre.ctx.canons, EvNode.out, RecordedValues(ev.prior.gens))
    /\ tr.new = Append(pre.new, ev.prior)
    /\ ctx.next_peer_pks = pre.ctx.next_peer_pks
    /\ ctx.subgraph_complete = pre.ctx.subgraph_complete

\* the merger reported a prior canon result to the canon instruction
SeenCanon == ev.kind = "canon" /\ ev.case # "merge_error" /\ ev.prior # NoState

\* C26: when the merger reports a prior canon result, canon rebuilds the
\* canon stream from the recorded content, binds it to canon_name and
\* appends a Canon state equal to the recorded one, whatever the current
\* peer is and without adding to next_peer_pks; when a recorded reference
\* does not resolve, the instruction fails with an uncatchable error and
\* nothing is bound or appended
C26_SeenCanon ==
    SeenCanon =>
        IF \A i \in 1..Len(ev.prior.gens) : Resolves(ev.prior.gens[i])
        THEN CanonReplayed
        ELSE IsErr(ret) /\ ~ret.catchable /\ CanonLeftNothing

\* a prior canon result that records position 0 is replayed over a stream
\* that was never written, and the error returned is a catchable one
C26_MissingStream ==
    /\ SeenCanon
    /\ ev.prior.gens = <<0>>
    /\ pre.ctx.streams[EvNode.x] = <<>>
    /\ ret.kind = "StreamsForCanonNotFound"
    /\ ret.catchable

\* what handle_seen_canon does: a stream that does not exist gives the
\* catchable StreamsForCanonNotFound, a position that no value of an
\* existing stream was recorded at gives the uncatchable
\* VariableNotFoundByPos, and in both cases nothing is bound or appended;
\* otherwise the recorded canon result is replayed
C26_CodeSeenCanon ==
    SeenCanon =>
        IF pre.ctx.streams[EvNode.x] = <<>>
        THEN ret = StreamsForCanonNotFound(EvNode.x) /\ ret.catchable /\ CanonLeftNothing
        ELSE IF \E i \in 1..Len(ev.prior.gens) : ~Resolves(ev.prior.gens[i])
        THEN ret.kind = "VariableNotFoundByPos" /\ ~ret.catchable /\ CanonLeftNothing
        ELSE CanonReplayed

\* a prior canon result is replayed on a peer that is not the peer of the
\* canon instruction
C26_ReplayedElsewhere ==
    /\ SeenCanon
    /\ CanonReplayed
    /\ EvNode.peer # ctx.current_peer_id
    /\ ev.prior.gens # <<>>

\* the merger reported no prior canon result to the canon instruction
UnseenCanon == ev.kind = "canon" /\ ev.case # "merge_error" /\ ev.prior = NoState

\* the canon instruction met on the peer it names
OnTargetPeer == EvNode.peer = pre.ctx.current_peer_id

\* all values of the stream, in insertion order, became the canon stream,
\* and one Canon state was appended
CanonSnapshot ==
    /\ ret = OkRes
    /\ ctx.canons = add_canon(pre.ctx.canons, EvNode.out,
                              [i \in 1..Len(CanonSource) |-> CanonSource[i].value])
    /\ Len(tr.new) = Len(pre.new) + 1
    /\ SubSeq(tr.new, 1, Len(pre.new)) = pre.new
    /\ tr.new[Len(tr.new)].t = "canon"
    /\ Len(tr.new[Len(tr.new)].gens) = Len(CanonSource)

\* C27: a canon with no prior record, executed on its target peer over a
\* stream that does not exist yet, succeeds: it binds an empty canon stream
\* to canon_name and appends one Canon state; over an existing stream it
\* snapshots all values of the stream in insertion order
C27_UnseenCanon ==
    (UnseenCanon /\ OnTargetPeer) => CanonSnapshot

\* a canon with no prior record, on its target peer, over a stream that was
\* never written
C27_NoStream ==
    /\ UnseenCanon
    /\ OnTargetPeer
    /\ pre.ctx.streams[EvNode.x] = <<>>

\* what handle_unseen_canon does on the target peer: a stream that does not
\* exist gives the catchable StreamsForCanonNotFound and nothing is bound
\* or appended; an existing stream is snapshot in insertion order
C27_CodeUnseenCanon ==
    (UnseenCanon /\ OnTargetPeer) =>
        IF pre.ctx.streams[EvNode.x] = <<>>
        THEN ret = StreamsForCanonNotFound(EvNode.x) /\ CanonLeftNothing
        ELSE CanonSnapshot

\* a stream with two values, "b" written before "a", was snapshot
C27_TwoValues ==
    /\ UnseenCanon
    /\ OnTargetPeer
    /\ ret = OkRes
    /\ ctx.canons[EvNode.out].values = <<"b", "a">>

\* C28: a canon with no prior record whose peer is not the current peer
\* defers: it adds that peer to next_peer_pks, sets subgraph_complete to
\* false, appends no state to the output trace, binds no canon stream and
\* returns Ok
C28_Deferred ==
    (UnseenCanon /\ ~OnTargetPeer) =>
        /\ ret = OkRes
        /\ ctx.next_peer_pks = Append(pre.ctx.next_peer_pks, EvNode.peer)
        /\ ~ctx.subgraph_complete
        /\ tr.new = pre.new
        /\ ctx.canons = pre.ctx.canons
        /\ ctx.streams = pre.ctx.streams

\* a canon for peer "Q" with no prior record is met on peer "P", over a
\* stream that holds a value
C28_Witness ==
    /\ UnseenCanon
    /\ ~OnTargetPeer
    /\ pre.ctx.streams[EvNode.x] # <<>>
    /\ ctx.next_peer_pks = <<"Q">>
    /\ ~ctx.subgraph_complete

\* the value handed to track_value was in the tracker before the call
AlreadyTracked == \E c \in CidSpace : pre.ctx.cids[c] = ev.value

\* C29: the CID tracker is content-addressed and idempotent: tracking a
\* value that is already tracked returns the same CID and leaves the
\* contents of the store unchanged; equal values always get equal CIDs;
\* get(cid) after track_value(v) = cid returns v, and get of a CID that was
\* never tracked returns None
C29_CidTracker ==
    /\ ev.op = "track" =>
          /\ ev.cid = value_to_json_cid(ev.value)
          /\ cid_get(ctx.cids, ev.cid) = ev.value
          /\ \A c \in CidSpace \ {ev.cid} : ctx.cids[c] = pre.ctx.cids[c]
          /\ AlreadyTracked =>
                /\ pre.ctx.cids[ev.cid] = ev.value
                /\ ctx.cids = pre.ctx.cids
    /\ ev.op = "get" =>
          /\ ev.cid \notin ev.known => ev.got = NoJValue
          /\ ev.cid \in ev.known => ev.got # NoJValue /\ value_to_json_cid(ev.got) = ev.cid
    /\ \A v \in JValues, w \in JValues : v = w => value_to_json_cid(v) = value_to_json_cid(w)

\* a value is tracked for the second time in a step
C29_Witness ==
    /\ ev.op = "track"
    /\ AlreadyTracked
    /\ tr.tracked = 2
    /\ ctx.prev_cid_map = NoCids
    /\ ctx.current_cid_map = NoCids
    /\ ctx.cids[Lorem] = NoJValue

\* the CIDs an input store holds
StoredIn(store) == { c \in CidSpace : store[c] # NoJValue }

\* C30: CID closure: every CID referenced by a state of the output trace
\* (executed call values, canon results) resolves in the CID store returned
\* with that trace, and that store is built from the previous store, the
\* current store and the values tracked in this step
C30_CidClosure ==
    pc = "done" =>
        /\ \A i \in 1..Len(outcome.trace) :
              check_reference(outcome.cid_store, outcome.trace[i].cid) = "Ok"
        /\ StoredIn(outcome.cid_store) =
              StoredIn(ctx.prev_cid_map) \cup StoredIn(ctx.current_cid_map) \cup
              ev.tracked
        /\ verify(outcome.cid_store)

\* a step ended whose output trace refers to a value of the previous store,
\* a value of the current store and a value tracked in the step
C30_Witness ==
    /\ pc = "done"
    /\ Len(outcome.trace) = 3
    /\ \E i, j, k \in 1..3 :
          /\ outcome.trace[i].cid \in StoredIn(ctx.prev_cid_map) \ StoredIn(ctx.current_cid_map)
          /\ outcome.trace[j].cid \in StoredIn(ctx.current_cid_map) \ StoredIn(ctx.prev_cid_map)
          /\ outcome.trace[k].cid \notin StoredIn(ctx.prev_cid_map) \cup StoredIn(ctx.current_cid_map)
          /\ outcome.trace[k].t = "canon"

\* the lcid of the data a step was given: that of the first input data, or
\* the one the step before wrote
InputLcid == IF ev.run = 1 THEN MaxCallId ELSE outcome.lcid

\* the ids of the call requests issued so far in a step
IssuedIds(requests) == [i \in 1..Len(requests) |-> requests[i].call_id]

\* C31: call ids are never reused: the ids issued in a step are strictly
\* increasing and start at lcid + 1 of the input data, every issued id is
\* greater than every id issued in an earlier step, and the lcid written to
\* the output data is the last id issued (or the input lcid when none was
\* issued)
C31_CallIds ==
    [][ /\ pc = "running" =>
              /\ IssuedIds(ctx.call_requests) =
                    [i \in 1..Len(ctx.call_requests) |-> InputLcid + i]
              /\ ctx.last_call_request_id = InputLcid + Len(ctx.call_requests)
        /\ (pc = "running" /\ pc' = "done") =>
              /\ outcome'.call_requests = ctx.call_requests
              /\ outcome'.lcid = InputLcid + Len(ctx.call_requests)
              /\ outcome'.lcid >= InputLcid
              /\ \A i \in 1..Len(outcome'.call_requests) :
                    outcome'.call_requests[i].call_id > InputLcid
        /\ (pc = "done" /\ pc' = "running") =>
              /\ ctx'.last_call_request_id = outcome.lcid
              /\ ctx'.call_requests = <<>> ]_vars

\* a second step on the data of a first step that issued a call id has
\* issued a call id itself, and has ended
C31_Witness ==
    /\ pc = "done"
    /\ ev.run = 2
    /\ outcome.call_requests # <<>>
    /\ outcome.call_requests[1].call_id > MaxCallId + 1
    /\ outcome.lcid = outcome.call_requests[Len(outcome.call_requests)].call_id

\* the prior state of the call that ran last is a RequestSentBy marker of
\* another peer
ForeignMarker ==
    /\ ev.kind = "call"
    /\ ev.case # "merge_error"
    /\ ev.prior.t = "call"
    /\ ev.prior.res = "sent"
    /\ ev.prior.peer # pre.ctx.current_peer_id

\* what handle_prev_state returned to the call that ran last
PrevStateHandled == handle_prev_state(pre.ctx, pre.new, EvNode, ev.prior)

\* C32: when the prior state of a call is a RequestSentBy marker that was
\* not issued by the current peer: if the target peer of the call is the
\* current peer the call is executed now (should_execute is true and
\* subgraph_complete is not cleared); if the target peer is not the current
\* peer the call is not executed, the marker is carried unchanged into the
\* output trace and subgraph_complete is set to false
C32_ForeignMarker ==
    ForeignMarker =>
        IF EvNode.peer = pre.ctx.current_peer_id
        THEN /\ ~IsErr(PrevStateHandled.err)
             /\ PrevStateHandled.desc.should_execute
             /\ PrevStateHandled.ctx.subgraph_complete = pre.ctx.subgraph_complete
             /\ PrevStateHandled.new = pre.new
             /\ ev.should_execute
             /\ ev.how \in {"local", "arg_error"}
        ELSE /\ ~PrevStateHandled.desc.should_execute
             /\ ~ev.should_execute
             /\ ev.how = "replay"
             /\ ret = OkRes
             /\ Appended(ev.prior)
             /\ ~ctx.subgraph_complete
             /\ ctx.call_requests = pre.ctx.call_requests
             /\ ctx.next_peer_pks = pre.ctx.next_peer_pks

\* a call for the current peer found the marker of another peer and issued
\* its call request, in a subgraph that was complete until then
C32_Witness ==
    /\ ForeignMarker
    /\ EvNode.peer = pre.ctx.current_peer_id
    /\ pre.ctx.subgraph_complete
    /\ ev.how = "local"
    /\ Len(ctx.call_requests) = Len(pre.ctx.call_requests) + 1

\* a call for another peer found the marker of another peer, in a subgraph
\* that was complete until then
C32_Carried ==
    /\ ForeignMarker
    /\ EvNode.peer # pre.ctx.current_peer_id
    /\ pre.ctx.subgraph_complete
    /\ ~ctx.subgraph_complete

\* the Par record of a side: a side with no Par record counts as Par(0, 0)
ParSide(state) == IF state = NoState THEN ParS(0, 0) ELSE state

\* the slider exposes a fresh window of n states at position pos
Exposes(slider, pos, n) ==
    /\ slider.pos = pos
    /\ slider.sub = n
    /\ slider.seen = 0
    /\ interval_len(slider) = n
    /\ set_subtrace_len(slider, n).ok

\* C33: the par FSM is driven in the order from_left_started,
\* left_completed, right_completed.  While the left branch runs the previous
\* and the current slider expose exactly the left sizes of their own Par
\* records, while the right branch runs exactly their right sizes (a side
\* with no Par record counts as Par(0, 0)), and after right_completed the
\* windows of the parent are restored; once from_left_started has succeeded,
\* switching the sliders to the right sizes in left_completed never fails
C33_ParSliders ==
    /\ (ev.kind = "par" /\ ev.case = "left_started") =>
          LET fsm == ParFrame.fsm IN
          /\ pre.top.ph = 0 /\ ParFrame.ph = 1
          /\ fsm.prev_par = ParSide(ev.ps)
          /\ fsm.current_par = ParSide(ev.cs)
          /\ Exposes(tr.prev, fsm.prev_pos, fsm.prev_par.l)
          /\ Exposes(tr.cur, fsm.cur_pos, fsm.current_par.l)
    /\ (ev.kind = "par" /\ ev.case \in {"left_ok", "left_error"}) =>
          LET fsm == ParFrame.fsm IN
          /\ pre.top.ph = 1 /\ ParFrame.ph = 2
          /\ fsm.prev_par = pre.top.fsm.prev_par
          /\ fsm.current_par = pre.top.fsm.current_par
          /\ Exposes(tr.prev, fsm.prev_pos + fsm.prev_par.l, fsm.prev_par.r)
          /\ Exposes(tr.cur, fsm.cur_pos + fsm.current_par.l, fsm.current_par.r)
    /\ ParCompleted =>
          LET fsm == pre.top.fsm
              pused == fsm.prev_par.l + fsm.prev_par.r
              cused == fsm.current_par.l + fsm.current_par.r
          IN
          /\ pre.top.ph = 2
          /\ Exposes(tr.prev, fsm.prev_pos + pused, fsm.prev_rest - pused)
          /\ Exposes(tr.cur, fsm.cur_pos + cused, fsm.cur_rest - cused)

\* a par whose previous record is Par(1, 1) and whose current record is
\* Par(0, 1) has run both branches
C33_Witness ==
    /\ ParCompleted
    /\ pre.top.fsm.prev_par = ParS(1, 1)
    /\ pre.top.fsm.current_par = ParS(0, 1)

\* the updater that update was called on
Updater == pre.ctx.updater

\* C34: after the fold interval updater runs, the interval length of the
\* previous slider is its length at fold start minus the number of states of
\* the previous trace seen during the iteration, and the interval length of
\* the current slider is its length at fold start minus the number of
\* states of the current trace seen; each slider is updated from its own
\* counters only
C34_IntervalUpdate ==
    (ev.op = "update" /\ ev.outcome = "ok") =>
        /\ interval_len(tr.prev) = Updater.prev_interval_len - Updater.prev_states_seen
        /\ interval_len(tr.cur) = Updater.current_interval_len - Updater.current_states_seen
        /\ tr.prev = set_interval_len(pre.tr.prev, interval_len(tr.prev)).slider
        /\ tr.cur = set_interval_len(pre.tr.cur, interval_len(tr.cur)).slider

\* an iteration saw one state of the current trace and none of the previous
\* one, with two states left in the previous window and one in the current
C34_CurrentSeen ==
    /\ ev.op = "update"
    /\ ev.outcome = "ok"
    /\ Updater = [prev_states_seen |-> 0, current_states_seen |-> 1,
                  prev_interval_len |-> 2, current_interval_len |-> 1]
    /\ interval_len(tr.prev) = 0
    /\ interval_len(tr.cur) = 1

\* what update does when it succeeds: the previous slider gets the length
\* computed for the current one, the current slider is left as it was
C34_CodeUpdate ==
    (ev.op = "update" /\ ev.outcome = "ok") =>
        /\ interval_len(tr.prev) =
              Updater.current_interval_len - Updater.current_states_seen
        /\ tr.cur = pre.tr.cur

\* more states were seen in the iteration than the interval held at fold
\* start, for either slider
Underflow ==
    \/ Updater.prev_states_seen > Updater.prev_interval_len
    \/ Updater.current_states_seen > Updater.current_interval_len

\* C35: if the number of states seen in a fold iteration exceeds the
\* interval length recorded at fold start for either slider, the interval
\* update reports an uncatchable structural error; it never panics, never
\* wraps around to a huge length and never sets a slider window
C35_Underflow ==
    (ev.op = "update" /\ Underflow) =>
        /\ ev.outcome = "error"
        /\ IsErr(ret) /\ ~ret.catchable
        /\ ~ev.wrapped
        /\ tr = pre.tr

\* an iteration saw a state of the previous trace although the previous
\* window was empty at fold start, and update panicked
C35_Panic ==
    /\ ev.op = "update"
    /\ Updater.prev_interval_len = 0
    /\ Updater.prev_states_seen = 1
    /\ ev.outcome = "panic"

\* what update does on an underflow: a build with overflow checks panics; a
\* build without them wraps the difference around and the slider rejects
\* the length; when only the current difference underflows the previous
\* slider has been set before
C35_CodeUnderflow ==
    (ev.op = "update" /\ Underflow) =>
        /\ ev.build = "overflow_checks" => ev.outcome = "panic"
        /\ ev.build = "wrapping" =>
              /\ ev.outcome = "error" /\ ev.wrapped /\ IsErr(ret) /\ ~ret.catchable
        /\ tr.cur = pre.tr.cur
        /\ Updater.prev_states_seen > Updater.prev_interval_len => tr = pre.tr

----------------------------------------------------------------------------
(* The generation an ap instruction is handed                              *)

\* the ap instruction went on after the merge: no merge error, and no
\* recorded result to compare with the instruction
ApWentOnFresh == ev'.case \in {"fresh", "src_error", "dst_error"}

----------------------------------------------------------------------------
(* The cells of a scalar                                                   *)

\* the cells are set at strictly increasing depths, none beyond depth d
WellScoped(cells, d) ==
    /\ \A i \in 1..(Len(cells) - 1) : cells[i].position < cells[i + 1].position
    /\ cells # <<>> => cells[Len(cells)].position <= d

\* the value of the deepest of the cells set at a depth up to d
DeepestUpTo(cells, d) ==
    LET at == { i \in 1..Len(cells) : cells[i].position <= d } IN
    IF at = {} THEN NoVal
    ELSE LET i == CHOOSE j \in at : \A k \in at : cells[k].position <= cells[j].position
         IN  cells[i].value

\* C37: after any sequence of set_value, meet_scope_start and
\* meet_scope_end the cells of every defined scalar are set at strictly
\* increasing depths, the last of them at most the current depth; get_value
\* therefore gives the value of the deepest cell that is not deeper than the
\* current depth, and the read of a name bound to nothing fails with the
\* catchable VariableNotFound and changes no state.
C37_ScalarCells ==
    /\ \A n \in Names :
          /\ WellScoped(ctx.scalars.local_values[n], ctx.scalars.fold_block_id)
          /\ get_value(ctx.scalars, n) =
                DeepestUpTo(ctx.scalars.local_values[n], ctx.scalars.fold_block_id)
          /\ ScalarDefined(ctx.scalars, n) => get_value(ctx.scalars, n) # NoVal
    /\ (ev.op = "get" /\ ev.value = "VariableNotFound") =>
          /\ ~ScalarDefined(pre.ctx.scalars, ev.name)
          /\ ret = VariableNotFound(ev.name) /\ ret.catchable
          /\ ctx = pre.ctx
          /\ pc = "scalars"

\* x was set outside every fold and again inside a fold nested in another,
\* then read: the value read is the one set last
C37_Witness ==
    /\ ev.op = "get" /\ ev.name = "x"
    /\ Len(ctx.scalars.local_values["x"]) = 2
    /\ ctx.scalars.local_values["x"][1] = SparseCell(0, "a")
    /\ ctx.scalars.local_values["x"][2] = SparseCell(2, "b")
    /\ ctx.scalars.fold_block_id = 2
    /\ get_value(ctx.scalars, "x") = "b"

----------------------------------------------------------------------------
(* The states a call with a prior state appends                            *)

\* the call that ran last found a prior state
CallWithPrior ==
    /\ ev.kind = "call"
    /\ ev.case # "merge_error"
    /\ ev.prior # NoState

\* trace b is trace a with n more states
Grown(a, b, n) == Len(b) = Len(a) + n /\ SubSeq(b, 1, Len(a)) = a

\* C38: handling a call that has a prior state never appends more than one
\* call state.  handle_prev_state either appends exactly one state and
\* returns a descriptor with no prior state, or returns an error (having
\* appended at most one state), or appends nothing and returns the prior
\* state in the descriptor; handle_prev_state followed by
\* maybe_set_prev_state appends exactly one state whenever handle_prev_state
\* returned Ok, and so does a call that is not executed further.
C38_OneCallState ==
    CallWithPrior =>
        LET h == PrevStateHandled IN
        /\ IF IsErr(h.err)
           THEN Grown(pre.new, h.new, 0) \/ Grown(pre.new, h.new, 1)
           ELSE \/ Grown(pre.new, h.new, 1) /\ h.desc.prev_state = NoState
                \/ /\ Grown(pre.new, h.new, 0)
                   /\ h.desc.prev_state = ev.prior
        /\ ~IsErr(h.err) =>
              Grown(pre.new, maybe_set_prev_state(h.desc, h.new), 1)
        /\ (~IsErr(h.err) /\ ~h.desc.should_execute) =>
              ret = OkRes /\ Grown(pre.new, tr.new, 1)
        /\ Grown(pre.new, tr.new, 0) \/ Grown(pre.new, tr.new, 1)

\* a call found its own request marker and no result for it yet:
\* handle_prev_state appended nothing, the marker was appended afterwards
C38_Witness ==
    /\ CallWithPrior
    /\ ev.prior.res = "sent"
    /\ ev.prior.peer = pre.ctx.current_peer_id
    /\ ~IsErr(PrevStateHandled.err)
    /\ PrevStateHandled.new = pre.new
    /\ PrevStateHandled.desc = not_ready(ev.prior)
    /\ Appended(ev.prior)

----------------------------------------------------------------------------
(* The host loop                                                           *)

\* the peers named in the rounds so far
PeersOfRounds == UNION { extend({}, ev.pks[i]) : i \in 1..Len(ev.pks) }

\* C39: the host loop invokes the interpreter again until an outcome holds
\* no call request, and returns an outcome only then.  At every further
\* invocation call_results holds one service result for each call id the
\* preceding outcome requested, under that id, the previous data is the
\* data of the preceding outcome and the current data is empty.  The
\* next_peer_pks returned is the union of the next_peer_pks of all rounds,
\* each peer once.
C39_HostLoop ==
    /\ (pc = "loop" /\ ev.round > 0) =>
          /\ ~is_empty(ev.last.call_requests)
          /\ DOMAIN ctx.call_results = DOMAIN ev.last.call_requests
          /\ \A id \in DOMAIN ev.last.call_requests :
                ctx.call_results[id] = call_service(ev.last.call_requests[id])
          /\ ctx.prev_data = ev.last.data
          /\ ctx.data = NoData
    /\ ev.round > 1 =>
          /\ pre.ctx.data = NoData
          /\ ~is_empty(pre.ctx.call_results)
    /\ pc = "returned" =>
          /\ is_empty(ev.last.call_requests)
          /\ outcome.data = ev.last.data
          /\ outcome.call_requests = ev.last.call_requests
          /\ \A i, j \in 1..Len(outcome.next_peer_pks) :
                i # j => outcome.next_peer_pks[i] # outcome.next_peer_pks[j]
          /\ extend({}, outcome.next_peer_pks) = PeersOfRounds

\* the loop returned after three invocations, the second of them on the
\* results of the two calls the first had requested; the rounds had named
\* A twice, then A and B, and the outcome names B, then A
C39_Witness ==
    /\ pc = "returned"
    /\ ev.round = 3
    /\ ev.pks = << <<"A", "A">>, <<"A", "B">>, <<>> >>
    /\ outcome.next_peer_pks = <<"B", "A">>
    /\ DOMAIN pre.ctx.call_results # {}
    /\ pre.ctx.data = NoData

----------------------------------------------------------------------------
(* Reachability in the test network                                        *)

\* C40: after any sequence of insert, remove, fail, unfail, set_neighbors
\* and set_failed a peer reaches target t if and only if the peer is not
\* failed and t is the peer itself or a neighbor that is not failing;
\* insert and remove clear their target from the failing set, fail and
\* unfail leave the neighbors as they were, and a peer that is not failed
\* reaches itself.
C40_Reachable ==
    /\ ev.op = "is_reachable" =>
          /\ ev.returned <=>
                /\ ~ctx.failed
                /\ \/ ev.target = ctx.peer_id
                   \/ /\ ev.target \in ctx.neighborhood.neighbors
                      /\ ev.target \notin ctx.neighborhood.failing
          /\ ctx = pre.ctx
    /\ ev.op \in {"insert", "remove"} => ev.target \notin ctx.neighborhood.failing
    /\ ev.op = "insert" => ev.target \in ctx.neighborhood.neighbors
    /\ ev.op = "remove" => ev.target \notin ctx.neighborhood.neighbors
    /\ ev.op \in {"fail", "unfail"} =>
          ctx.neighborhood.neighbors = pre.ctx.neighborhood.neighbors
    /\ ~ctx.failed => is_reachable(ctx, ctx.peer_id)

\* the peer reaches a neighbor that is not failing, while it has a failing
\* neighbor and holds itself as failing
C40_Witness ==
    /\ ev.op = "is_reachable" /\ ev.target = "other" /\ ev.returned
    /\ ctx.neighborhood.failing = {"someone", "third"}
    /\ ctx.neighborhood.neighbors = {"other", "third"}

====
